---- MODULE Spec2Model ----
(***************************************************************************)
(* OAuth 2.1 authorization-code-with-PKCE subsystem of the Extend MCP      *)
(* server: the authorization-code store, the bearer-token store (JSON file *)
(* and DynamoDB backends), the OAuthHandler operations, and the /mcp and   *)
(* /token request handlers that call them.                                 *)
(*                                                                         *)
(* Scheduling.  The server is one asyncio event loop.  A coroutine gives   *)
(* up control only where an awaited operation really suspends.  The store  *)
(* methods are "async def", but their bodies never suspend: acquiring an   *)
(* uncontended asyncio.Lock returns at once, Path.read_text/write_text and *)
(* the boto3 table calls are blocking calls.  So each OAuthHandler method  *)
(* runs to completion once entered, and the steps of a request handler are *)
(* delimited by its real suspension points: reading the request body       *)
(* (request.json(), request.form()) and the downstream API call            *)
(* (extend_api.run).  Each action below is one such step.                  *)
(*                                                                         *)
(* Time.  "now" counts clock units of 10 minutes (datetime.now()).         *)
(***************************************************************************)
EXTENDS Integers, Sequences, FiniteSets, TLC

\* ------------------------------------------------------------------ bounds
\* the length of a PKCE verifier, in characters
MaxChars == 2
\* the number of command-line arguments
MaxArgs == 3
\* the number of entries of a configuration, and of tools it is asked about
MaxPerms == 2
MaxTools == 2
MaxTime == 3
MaxCodes == 2

\* ------------------------------------------------------- program constants
\* timedelta(minutes=10), in clock units of 10 minutes
CodeTTL == 1
\* OAuthConfig.token_expiry_hours as configured (--token-expiry-hours), in
\* clock units; the model's configuration keeps it short so that a bearer
\* token outlives a code and still expires within MaxTime
TokenTTL == 2

None == "None"
\* mutant: no value counts as supplied
Truthy_never(x) == FALSE
\* mutant: an absent value counts as supplied
Truthy_always(x) == TRUE

Truthy(x) == x # None /\ x # ""

\* Optional values: <<>> is Python's None, <<x>> is the value x
Nothing == <<>>
Some(x) == <<x>>
IsSome(o) == Len(o) = 1
The(o) == o[1]

\* -------------------------------------------------------------- crypto_utils
\* The output of secrets.token_bytes is modelled by a fresh serial number; the
\* prefix is kept, because validate_bearer_token tests it.
\* mutant: every call draws the same token
generate_secure_token_same(n) == <<"oauth_", 1>>

generate_secure_token(n) == <<"oauth_", n>>
\* the number of different characters a verifier is made of
AlphabetSize == 3

\* mutant: every verifier has the same digest
sha256_b64_const(v) == <<"h", 0>>

generate_authorization_code_str(n) == <<"code_", n>>

\* PKCE verifiers are <<"v", i>>; the SHA-256 digest of verifier <<"v", i>>
\* (urlsafe base64, unpadded) is the value <<"h", i>>: a digest is never equal
\* to a verifier and different verifiers have different digests.
Verifiers == {<<"v", 1>>, <<"v", 2>>}
sha256_b64(v) == <<"h", v[2]>>
Methods == {"S256", "plain", "S512"}

\* mutant: every string counts as ASCII
IsAscii_always(s) == TRUE

\* strings tagged "u" hold a character outside ASCII: encode('ascii') and
\* secrets.compare_digest raise on them
IsAscii(s) == s[1] # "u"

\* generate_pkce_challenge: [ok |-> FALSE] is the raised exception (ValueError
\* for the method, UnicodeEncodeError for the verifier)
generate_pkce_challenge(verifier, method) ==
    IF method = "S256"
    THEN IF IsAscii(verifier) THEN [ok |-> TRUE, val |-> sha256_b64(verifier)]
         ELSE [ok |-> FALSE, val |-> verifier]
    ELSE IF method = "plain" THEN [ok |-> TRUE, val |-> verifier]
    ELSE [ok |-> FALSE, val |-> verifier]

\* mutant: the comparison is lost
verify_pkce_challenge_skip(code_verifier, code_challenge, method) == TRUE

verify_pkce_challenge(code_verifier, code_challenge, method) ==
    LET expected == generate_pkce_challenge(code_verifier, method)
    IN  IF expected.ok /\ IsAscii(expected.val) /\ IsAscii(code_challenge)
        THEN expected.val = code_challenge
        ELSE FALSE

\* simple_encrypt / simple_decrypt: repeating-key XOR, then base64.  A
\* credential is a sequence of 2-bit symbols; base64 text is the record
\* [b64 |-> bytes].
Xor2(a, b) == (((a % 2) + (b % 2)) % 2) + (2 * (((a \div 2) + (b \div 2)) % 2))
encryption_key == <<1, 2, 3>>
extended_key(n) == [i \in 1..n |-> encryption_key[((i - 1) % Len(encryption_key)) + 1]]
xor_bytes(bytes) == [i \in 1..Len(bytes) |-> Xor2(bytes[i], extended_key(Len(bytes))[i])]
\* mutant: the credential is stored as submitted
simple_encrypt_plain(plaintext) == plaintext

simple_encrypt(plaintext) == [b64 |-> xor_bytes(plaintext.text)]
IsB64(x) == DOMAIN x = {"b64"}
\* mutant: the stored value is returned as it is
simple_decrypt_raw(encrypted) == encrypted
\* mutant: a value that cannot be decrypted comes back empty
simple_decrypt_empty(encrypted) ==
    IF DOMAIN encrypted = {"b64"} THEN [text |-> xor_bytes(encrypted.b64)]
    ELSE [text |-> <<>>]

simple_decrypt(encrypted) ==
    IF IsB64(encrypted) THEN [text |-> xor_bytes(encrypted.b64)] ELSE encrypted

\* ------------------------------------------------------------------- users
Users == {"u1", "u2"}
ApiKey(u) == [text |-> IF u = "u1" THEN <<1, 1>> ELSE <<2, 3>>]
ApiSecret(u) == [text |-> IF u = "u1" THEN <<3, 0, 1, 2>> ELSE <<0, 2, 2, 1>>]

\* ------------------------------------------------------------------- state
VARIABLES
    now,         \* datetime.now()
    backend,     \* OAuthConfig.storage_type: "json" or "dynamodb"
    codes,       \* content of mcp_auth_codes.json: code -> AuthCodeData
    tokens,      \* content of the token store: token -> TokenData
    nextCode,    \* serial of the next authorization code drawn
    nextToken,   \* serial of the next bearer token drawn
    last,        \* the last operation called and what it returned
    exchanged,   \* history: codes for which an exchange has succeeded
    revoked,     \* history: tokens for which revoke_token has returned True
    auth_mode,   \* Options.auth_mode: "oauth" or "api_key"
    treq,        \* requests to /token: position in token_endpoint and response
    mreq,        \* requests to /mcp: position in mcp_endpoint and response
    ctx,         \* ExtendMCPServer._current_user_context
    creq,        \* requests to /authorize and /callback: position and response
    storeFailed, \* history: /mcp requests during which the token store raised
    lock,        \* JSONTokenStore._lock: the operation holding it, 0 when free
    fop,         \* operations in progress on one JSONTokenStore instance
    files,       \* mcp_auth_codes.json of each server instance
    call,        \* a call of a pure function: its arguments and what it returned
    xreq,        \* exchange_code_for_token calls in progress, statement by statement
    pending_selections, \* functions.pending_selections: confirmation token -> selection
    conf,        \* confirm_transaction_expense_data calls in progress
    applied      \* downstream API: updates applied for each confirmation token

\* the state of the HTTP endpoints
reqvars == <<auth_mode, treq, mreq, ctx>>

\* the state of the specifications of /callback, of the file lock and of a
\* deployment of several instances
auxvars == <<creq, storeFailed, lock, fop, files>>

vars == <<now, backend, codes, tokens, nextCode, nextToken, last,
          exchanged, revoked, auth_mode, treq, mreq, ctx,
          creq, storeFailed, lock, fop, files, call, xreq,
          pending_selections, conf, applied>>

\* the state of the specifications of the pure functions and of the exchange
\* taken statement by statement
stepvars == <<call, xreq, pending_selections, conf, applied>>

\* the state of the expense-data confirmation
confvars == <<pending_selections, conf, applied>>

EmptyMap == [k \in {} |-> None]
Put(f, k, v) == [x \in (DOMAIN f) \cup {k} |-> IF x = k THEN v ELSE f[x]]
Remove(f, ks) == [x \in (DOMAIN f) \ ks |-> f[x]]

\* ---------------------------------------------------------- auth_code_store
AuthCodeData(code, user_email, extend_api_key, extend_api_secret, code_challenge, code_challenge_method, client_id, redirect_uri, state, t) ==
    [code |-> code, user_email |-> user_email,
     extend_api_key |-> extend_api_key, extend_api_secret |-> extend_api_secret,
     code_challenge |-> code_challenge, code_challenge_method |-> code_challenge_method,
     client_id |-> client_id, redirect_uri |-> redirect_uri, state |-> state,
     created_at |-> t, expires_at |-> t + CodeTTL]

\* mutant: the expiry check is lost
AuthCodeData_is_expired_lax(d, t) == FALSE

AuthCodeData_is_expired(d, t) == t > d.expires_at

store_auth_code(file, d) == Put(file, d.code, d)

get_auth_code(file, code) ==
    IF code \in DOMAIN file THEN Some(file[code]) ELSE Nothing

\* mutant: reports the deletion without persisting it
delete_auth_code_keep(file, code) == [file |-> file, existed |-> code \in DOMAIN file]

delete_auth_code(file, code) ==
    IF code \in DOMAIN file
    THEN [file |-> Remove(file, {code}), existed |-> TRUE]
    ELSE [file |-> file, existed |-> FALSE]

cleanup_expired_codes(file, t) ==
    LET expired_codes == {c \in DOMAIN file : AuthCodeData_is_expired(file[c], t)}
    IN  [file |-> Remove(file, expired_codes), count |-> Cardinality(expired_codes)]

\* ------------------------------------------------- storage: base, file, dynamodb
TokenData(token, user_email, extend_api_key, extend_api_secret, expires_at, t) ==
    [token |-> token, user_email |-> user_email,
     extend_api_key |-> extend_api_key, extend_api_secret |-> extend_api_secret,
     expires_at |-> expires_at, created_at |-> t]

\* mutant: the boundary instant counts as expired
TokenData_is_expired_inclusive(d, t) ==
    IF ~IsSome(d.expires_at) THEN FALSE ELSE The(d.expires_at) <= t

\* expires_at is Optional: "if not self.expires_at: return False"
TokenData_is_expired(d, t) ==
    IF ~IsSome(d.expires_at) THEN FALSE ELSE The(d.expires_at) < t

\* mutant: the record is not written
store_token_drop(store, d) == store

store_token(store, d) == Put(store, d.token, d)

\* mutant: reports the deletion without persisting it
delete_token_keep(store, token) == [store |-> store, existed |-> token \in DOMAIN store]

\* JSONTokenStore.delete_token; DynamoDBTokenStore.delete_token (delete_item with
\* ReturnValues ALL_OLD) has the same effect and result
delete_token(store, token) ==
    IF token \in DOMAIN store
    THEN [store |-> Remove(store, {token}), existed |-> TRUE]
    ELSE [store |-> store, existed |-> FALSE]

JSONTokenStore_get_token(store, token) ==
    [store |-> store,
     val |-> IF token \in DOMAIN store THEN Some(store[token]) ELSE Nothing]

DynamoDBTokenStore_get_token(store, token, t) ==
    IF token \notin DOMAIN store THEN [store |-> store, val |-> Nothing]
    ELSE IF TokenData_is_expired(store[token], t)
         THEN [store |-> delete_token(store, token).store, val |-> Nothing]
         ELSE [store |-> store, val |-> Some(store[token])]

get_token(b, store, token, t) ==
    IF b = "json" THEN JSONTokenStore_get_token(store, token)
    ELSE DynamoDBTokenStore_get_token(store, token, t)

\* both backends delete exactly the records with expires_at < now
cleanup_expired_tokens(store, t) ==
    LET expired_tokens == {k \in DOMAIN store : TokenData_is_expired(store[k], t)}
    IN  [store |-> Remove(store, expired_tokens), count |-> Cardinality(expired_tokens)]

\* ------------------------------------------------------------- oauth_handler
\* mutant: every token parameter counts as missing
IsEmptyStr_always(tok) == TRUE
\* mutant: no parameter counts as missing
IsEmptyStr_never(tok) == FALSE

IsEmptyStr(tok) == tok[1] = ""
\* mutant: every string counts as carrying the prefix
startswith_any(tok, prefix) == TRUE

startswith(tok, prefix) == tok[1] = prefix

\* validate_bearer_token: the store after the call and the TokenData returned
validate_bearer_token(b, store, token, t) ==
    IF IsEmptyStr(token) \/ ~startswith(token, "oauth_")
    THEN [store |-> store, val |-> Nothing]
    ELSE LET got == get_token(b, store, token, t)
         IN  IF ~IsSome(got.val) THEN [store |-> got.store, val |-> Nothing]
             ELSE IF TokenData_is_expired(The(got.val), t)
                  THEN [store |-> delete_token(got.store, token).store, val |-> Nothing]
                  ELSE LET d == The(got.val)
                       IN  [store |-> got.store,
                            val |-> Some([d EXCEPT
                                !.extend_api_key = simple_decrypt(d.extend_api_key),
                                !.extend_api_secret = simple_decrypt(d.extend_api_secret)])]

\* generate_authorization_code: the code file after the call and the code
generate_authorization_code(file, n, user_email, extend_api_key, extend_api_secret, code_challenge, code_challenge_method, client_id, redirect_uri, state, t) ==
    LET auth_code == generate_authorization_code_str(n)
        auth_code_data == AuthCodeData(auth_code, user_email,
                              simple_encrypt(extend_api_key),
                              simple_encrypt(extend_api_secret),
                              code_challenge, code_challenge_method,
                              client_id, redirect_uri, state, t)
    IN  [file |-> store_auth_code(file, auth_code_data), code |-> auth_code]

\* mutant: a failed exchange consumes the codes
ExchangeError_consume(file, store, msg) ==
    [file |-> EmptyMap, store |-> store, ok |-> FALSE, err |-> msg, resp |-> Nothing]

ExchangeError(file, store, msg) ==
    [file |-> file, store |-> store, ok |-> FALSE, err |-> msg, resp |-> Nothing]

\* exchange_code_for_token: both stores after the call, and either the raised
\* ValueError (err) or the token response (resp); n is the serial drawn by
\* generate_secure_token
exchange_code_for_token(file, store, n, auth_code, code_verifier, client_id, redirect_uri, t) ==
    LET auth == get_auth_code(file, auth_code)
    IN  IF ~IsSome(auth) THEN ExchangeError(file, store, "Invalid authorization code")
        ELSE LET auth_data == The(auth) IN
        IF AuthCodeData_is_expired(auth_data, t)
        THEN ExchangeError(delete_auth_code(file, auth_code).file, store,
                           "Authorization code expired")
        ELSE IF ~verify_pkce_challenge(code_verifier, auth_data.code_challenge,
                                       auth_data.code_challenge_method)
        THEN ExchangeError(file, store, "Invalid PKCE code verifier")
        ELSE IF Truthy(client_id) /\ Truthy(auth_data.client_id)
                /\ client_id # auth_data.client_id
        THEN ExchangeError(file, store, "Client ID mismatch")
        ELSE IF Truthy(redirect_uri) /\ Truthy(auth_data.redirect_uri)
                /\ redirect_uri # auth_data.redirect_uri
        THEN ExchangeError(file, store, "Redirect URI mismatch")
        ELSE LET access_token == generate_secure_token(n)
                 token_data == TokenData(access_token, auth_data.user_email,
                                   auth_data.extend_api_key,
                                   auth_data.extend_api_secret,
                                   Some(t + TokenTTL), t)
             IN  [file |-> delete_auth_code(file, auth_code).file,
                  store |-> store_token(store, token_data),
                  ok |-> TRUE, err |-> "",
                  resp |-> Some([access_token |-> access_token,
                                 token_type |-> "Bearer",
                                 expires_in |-> TokenTTL,
                                 scope |-> "mcp"])]

revoke_token(store, token) == delete_token(store, token)

cleanup_expired_data(file, store, t) ==
    LET toks == cleanup_expired_tokens(store, t)
        cds == cleanup_expired_codes(file, t)
    IN  [file |-> cds.file, store |-> toks.store,
         expired_tokens_cleaned |-> toks.count, expired_codes_cleaned |-> cds.count]

\* ------------------------------------------------------------------ inputs
v1 == <<"v", 1>>
v2 == <<"v", 2>>
\* what a client submits to /callback: user, (code_challenge,
\* code_challenge_method), (client_id, redirect_uri)
GenerateInputs ==
    {<<"u1", <<sha256_b64(v1), "S256">>, <<"c1", "r1">>>>,
     <<"u2", <<v1, "plain">>, <<None, None>>>>}
\* (client_id, redirect_uri) a client presents to /token
PresentedBindings == {<<None, None>>, <<"c1", "r1">>, <<"c2", "r1">>, <<"c1", "r2">>}
\* (code_verifier, (client_id, redirect_uri)) a client presents to /token
ExchangeInputs ==
    {<<v, <<None, None>>>> : v \in Verifiers} \cup {<<v1, pb>> : pb \in PresentedBindings}
StateParam == "st"

CodeIds == {generate_authorization_code_str(i) : i \in 1..MaxCodes}
\* every bearer token is minted from a code of its own
TokenIds == {generate_secure_token(i) : i \in 1..MaxCodes}
\* what a client may present as a bearer token: a minted token or a string
\* without the prefix
PresentedTokens == TokenIds \cup {<<"other_", 1>>}

\* ------------------------------------------------------- POST /token inputs
MaxTokenReqs == 2
TokenReqs == 1..MaxTokenReqs
\* form.get of a field that is absent or empty
NoStr == <<"", 0>>
\* the code the clients of /token race for, and the (client_id, redirect_uri)
\* they send with it
TokenCode == generate_authorization_code_str(1)
TokenBinding == <<"c1", "r1">>
TokenForm(grant_type, code, code_verifier, client_id, redirect_uri) ==
    [grant_type |-> grant_type, code |-> code, code_verifier |-> code_verifier,
     client_id |-> client_id, redirect_uri |-> redirect_uri]
TokenForms ==
    {TokenForm("authorization_code", TokenCode, v, TokenBinding[1], TokenBinding[2]) :
        v \in Verifiers}
    \cup {TokenForm("refresh_token", TokenCode, v1, None, None),
          TokenForm("authorization_code", NoStr, v1, None, None),
          TokenForm("authorization_code", TokenCode, NoStr, None, None)}
NoForm == TokenForm("", NoStr, NoStr, None, None)
\* the verifier is the one the stored challenge was derived from
VerifierMatches(v, d) ==
    \/ d.code_challenge_method = "S256" /\ d.code_challenge = sha256_b64(v)
    \/ d.code_challenge_method = "plain" /\ d.code_challenge = v

\* history: the form names a stored, unexpired code, with the verifier its
\* challenge was derived from and with the client_id and redirect_uri it was
\* issued for
Grantable(file, f, t) ==
    /\ f.grant_type = "authorization_code"
    /\ f.code \in DOMAIN file
    /\ t <= file[f.code].expires_at
    /\ VerifierMatches(f.code_verifier, file[f.code])
    /\ f.client_id = file[f.code].client_id
    /\ f.redirect_uri = file[f.code].redirect_uri

\* a request that has not been sent yet
IdleTokenReq ==
    [pc |-> "idle", form |-> NoForm, status |-> 0, error |-> "",
     error_description |-> "", body |-> Nothing, grantable |-> FALSE,
     raced |-> FALSE]

\* --------------------------------------------------- store-level API inputs
MaxStoreKeys == 1
StoreCodes == {generate_authorization_code_str(i) : i \in 1..MaxStoreKeys}
StoreTokens == {generate_secure_token(i) : i \in 1..MaxStoreKeys}
\* the fields of the records stored: user, (code_challenge,
\* code_challenge_method), (client_id, redirect_uri)
StoreInput == <<"u1", <<sha256_b64(v1), "S256">>, <<"c1", "r1">>>>

\* --------------------------------------------------------- POST /mcp inputs
MaxMcpReqs == 2
McpReqs == 1..MaxMcpReqs
\* a parsed or unparseable request body: json is "invalid" (request.json()
\* raises), "array" (a non-empty JSON value without .get) or "object"
Body(json, jsonrpc, method, tool) ==
    [json |-> json, jsonrpc |-> jsonrpc, method |-> method, tool |-> tool]
NoBody == Body("none", None, None, None)
CallBody == Body("object", "2.0", "tools/call", "get_virtual_cards")
\* the Authorization header: '' when absent, else scheme and credentials
NoHeader == <<"", NoStr>>
Bearer(tok) == <<"Bearer ", tok>>
McpRequestOf(http, body, header) == [http |-> http, body |-> body, header |-> header]
McpRequests ==
    {McpRequestOf("POST", CallBody, h) :
        h \in {Bearer(generate_secure_token(1)), Bearer(generate_secure_token(2)),
               Bearer(<<"other_", 1>>), <<"Basic ", generate_secure_token(1)>>,
               NoHeader}}
    \cup {McpRequestOf("POST", Body("invalid", None, None, None), NoHeader),
          McpRequestOf("POST", Body("array", None, None, None), NoHeader),
          McpRequestOf("POST", Body("array", None, None, None),
                       Bearer(generate_secure_token(1))),
          McpRequestOf("POST", Body("object", "1.0", "tools/call", "get_virtual_cards"),
                       Bearer(generate_secure_token(1))),
          McpRequestOf("POST", Body("object", "2.0", "initialize", None),
                       Bearer(generate_secure_token(2))),
          McpRequestOf("POST", Body("object", "2.0", "tools/call", "no_such_tool"),
                       Bearer(generate_secure_token(1))),
          McpRequestOf("DELETE", NoBody, NoHeader)}
\* the ExtendAPI a tool operation runs with: the credentials it was built from
ExtendAPI(api_key, api_secret) == [api_key |-> api_key, api_secret |-> api_secret]
NoApi == ExtendAPI([text |-> <<>>], [text |-> <<>>])
\* the server-wide ExtendAPI of API key mode
ServerApi == ExtendAPI([text |-> <<9>>], [text |-> <<9, 9>>])
McpResponse(status, code, message, www_authenticate, result) ==
    [status |-> status, code |-> code, message |-> message,
     www_authenticate |-> www_authenticate, result |-> result]
NoResponse == McpResponse(0, 0, "", Nothing, "")
\* a request that has not been sent yet; rejected, attached, ran, api and left
\* are history: the header failed authentication, set_user_context was called
\* with a context for the request, extend_api.run was called, with which
\* ExtendAPI, and the context the handler left behind when it finished
IdleMcpReq ==
    [pc |-> "idle", req |-> McpRequestOf("", NoBody, NoHeader), resp |-> NoResponse,
     rejected |-> FALSE, attached |-> FALSE, ran |-> FALSE, api |-> NoApi,
     left |-> Nothing]

\* ------------------------------------ GET /authorize, POST /callback inputs
MaxCbReqs == 2
CbReqs == 1..MaxCbReqs
\* the fields of the login form posted to /callback; a field that is absent or
\* empty is "" (NoStr for a code_challenge, an empty text for a credential)
CbForm(user_email, extend_api_key, extend_api_secret, client_id, redirect_uri, code_challenge, code_challenge_method) ==
    [user_email |-> user_email, extend_api_key |-> extend_api_key,
     extend_api_secret |-> extend_api_secret, client_id |-> client_id,
     redirect_uri |-> redirect_uri, code_challenge |-> code_challenge,
     code_challenge_method |-> code_challenge_method]
NoText == [text |-> <<>>]
NoCbForm == CbForm("", NoText, NoText, "", "", NoStr, "S256")
\* a request slot that has not been used yet; authorized is history (GET
\* /authorize rendered the login page with the OAuth parameters in form) and
\* validated is what the credential check answered
IdleCbReq ==
    [pc |-> "idle", authorized |-> FALSE, form |-> NoCbForm, validated |-> "",
     status |-> 0, body |-> "", code |-> Nothing]

\* ------------------------------------------------- the durable-file store
MaxFileOps == 2
FileOps == 1..MaxFileOps
\* an operation that has not been called yet: the method, its arguments, the
\* file content it loaded and what it returned; contended and at are history:
\* the lock was held when the method was called, and the instant it finished
IdleFileOp ==
    [pc |-> "idle", op |-> "", key |-> NoStr, data |-> Nothing, loaded |-> EmptyMap,
     ret |-> FALSE, contended |-> FALSE, at |-> 0]

\* ----------------------------------------------------- server instances
Instances == {1, 2}

\* ------------------------------------------------------- pure functions
\* no call made yet
IdleCall == [fn |-> "", args |-> <<>>, ret |-> <<>>]

\* ------------------------------------------- expense-data confirmation calls
MaxConfReqs == 2
ConfReqs == 1..MaxConfReqs
\* a call of confirm_transaction_expense_data that has not been made yet
IdleConf == [pc |-> "idle", confirmation_token |-> NoStr, ok |-> FALSE, err |-> ""]

\* ------------------------------------- exchange_code_for_token, by statement
MaxXReqs == 2
XReqs == 1..MaxXReqs
\* a call of exchange_code_for_token that has not been made yet
IdleXReq ==
    [pc |-> "idle", auth_code |-> NoStr, code_verifier |-> NoStr, client_id |-> None,
     redirect_uri |-> None, auth_data |-> Nothing, token_data |-> Nothing,
     valid |-> FALSE, ok |-> FALSE, err |-> "", resp |-> Nothing]

Result(op, key, ok, err, val) ==
    [op |-> op, key |-> key, ok |-> ok, err |-> err]

\* ----------------------------------------------------------------- actions
\* the state after construction, but for the pure function called
InitRest ==
    /\ now = 0
    /\ backend \in {"json", "dynamodb"}
    /\ codes = EmptyMap
    /\ tokens = EmptyMap
    /\ nextCode = 1
    /\ nextToken = 1
    /\ last = Result("init", <<"", 0>>, TRUE, "", Nothing)
    /\ exchanged = {}
    /\ revoked = {}
    /\ auth_mode = "oauth"
    /\ treq = [i \in TokenReqs |-> IdleTokenReq]
    /\ mreq = [i \in McpReqs |-> IdleMcpReq]
    /\ ctx = Nothing
    /\ creq = [i \in CbReqs |-> IdleCbReq]
    /\ storeFailed = {}
    /\ lock = 0
    /\ fop = [i \in FileOps |-> IdleFileOp]
    /\ files = [i \in Instances |-> EmptyMap]
    /\ xreq = [i \in XReqs |-> IdleXReq]
    /\ pending_selections = EmptyMap
    /\ conf = [i \in ConfReqs |-> IdleConf]
    /\ applied = EmptyMap

Init ==
    /\ InitRest
    /\ call = IdleCall

Tick ==
    /\ now < MaxTime
    /\ now' = now + 1
    /\ UNCHANGED <<backend, codes, tokens, nextCode, nextToken, last,
                   exchanged, revoked>>
    /\ UNCHANGED reqvars
    /\ UNCHANGED auxvars
    /\ UNCHANGED stepvars

GenerateAuthorizationCode(u, ch, cb) ==
    /\ nextCode <= MaxCodes
    /\ LET r == generate_authorization_code(codes, nextCode, u, ApiKey(u), ApiSecret(u),
                    ch[1], ch[2], cb[1], cb[2], StateParam, now)
       IN  /\ codes' = r.file
           /\ last' = Result("generate_authorization_code", r.code, TRUE, "", Nothing)
    /\ nextCode' = nextCode + 1
    /\ UNCHANGED <<now, backend, tokens, nextToken, exchanged, revoked>>
    /\ UNCHANGED reqvars
    /\ UNCHANGED auxvars
    /\ UNCHANGED stepvars

ExchangeCodeForToken(c, v, cid, ruri) ==
    /\ LET r == exchange_code_for_token(codes, tokens, nextToken, c, v, cid, ruri, now)
       IN  /\ codes' = r.file
           /\ tokens' = r.store
           /\ last' = Result("exchange_code_for_token", c, r.ok, r.err, r.resp)
           /\ nextToken' = IF r.ok THEN nextToken + 1 ELSE nextToken
           /\ exchanged' = IF r.ok THEN exchanged \cup {c} ELSE exchanged
    /\ UNCHANGED <<now, backend, nextCode, revoked>>
    /\ UNCHANGED reqvars
    /\ UNCHANGED auxvars
    /\ UNCHANGED stepvars

ValidateBearerToken(tok) ==
    /\ LET r == validate_bearer_token(backend, tokens, tok, now)
       IN  /\ tokens' = r.store
           /\ last' = Result("validate_bearer_token", tok, IsSome(r.val), "", r.val)
    /\ UNCHANGED <<now, backend, codes, nextCode, nextToken, exchanged, revoked>>
    /\ UNCHANGED reqvars
    /\ UNCHANGED auxvars
    /\ UNCHANGED stepvars

RevokeToken(tok) ==
    /\ LET r == revoke_token(tokens, tok)
       IN  /\ tokens' = r.store
           /\ last' = Result("revoke_token", tok, r.existed, "", Nothing)
           /\ revoked' = IF r.existed THEN revoked \cup {tok} ELSE revoked
    /\ UNCHANGED <<now, backend, codes, nextCode, nextToken, exchanged>>
    /\ UNCHANGED reqvars
    /\ UNCHANGED auxvars
    /\ UNCHANGED stepvars

CleanupExpiredData ==
    /\ LET r == cleanup_expired_data(codes, tokens, now)
       IN  /\ codes' = r.file
           /\ tokens' = r.store
           /\ last' = Result("cleanup_expired_data", <<"", 0>>, TRUE, "",
                             <<r.expired_tokens_cleaned, r.expired_codes_cleaned>>)
    /\ UNCHANGED <<now, backend, nextCode, nextToken, exchanged, revoked>>
    /\ UNCHANGED reqvars
    /\ UNCHANGED auxvars
    /\ UNCHANGED stepvars

Next ==
    \/ Tick
    \/ \E g \in GenerateInputs : GenerateAuthorizationCode(g[1], g[2], g[3])
    \/ \E c \in CodeIds, x \in ExchangeInputs :
          ExchangeCodeForToken(c, x[1], x[2][1], x[2][2])
    \/ \E tok \in PresentedTokens : ValidateBearerToken(tok)
    \/ \E tok \in PresentedTokens : RevokeToken(tok)
    \/ CleanupExpiredData

Spec == Init /\ [][Next]_vars

\* ------------------------------------------------------------- claims: Spec
InvalidGrantMessages ==
    {"Invalid authorization code", "Authorization code expired",
     "Invalid PKCE code verifier", "Client ID mismatch", "Redirect URI mismatch"}

\* every string a caller may pass as a bearer token
AllTokenStrings == PresentedTokens \cup {<<"", 0>>, generate_secure_token(MaxCodes + 1)}

\* the exchange a caller could make in the current state
ExchangeNow(c, v, pb) ==
    exchange_code_for_token(codes, tokens, nextToken, c, v, pb[1], pb[2], now)

\* C1: once an exchange of code c has succeeded, every later exchange of c,
\* with any verifier, client_id and redirect_uri, fails with an invalid-grant
\* error and adds no token to the token store.
C1_SingleUse ==
    \A c \in exchanged, v \in Verifiers, pb \in PresentedBindings :
        LET r == ExchangeNow(c, v, pb)
        IN  ~r.ok /\ r.err \in InvalidGrantMessages /\ r.store = tokens

C1_Witness ==
    /\ last.op = "exchange_code_for_token"
    /\ last.key \in exchanged
    /\ ~last.ok
    /\ last.err = "Invalid authorization code"

\* C3, as stated: validate_bearer_token(t) returns a user context iff t is in
\* the token store and now < expires_at.
C3_ValidIffBeforeExpiry ==
    \A t \in AllTokenStrings :
        IsSome(validate_bearer_token(backend, tokens, t, now).val)
            <=> (t \in DOMAIN tokens /\ now < The(tokens[t].expires_at))

\* C3, amended: validate_bearer_token(t) returns a user context iff t is in the
\* token store and now <= expires_at (a token is expired when expires_at < now);
\* for an absent token, a token without the prefix or an expired token it
\* returns nothing.
C3_ValidIffNotExpired ==
    \A t \in AllTokenStrings :
        /\ IsSome(validate_bearer_token(backend, tokens, t, now).val)
              <=> (t \in DOMAIN tokens /\ now <= The(tokens[t].expires_at))
        /\ t[1] # "oauth_" => ~IsSome(validate_bearer_token(backend, tokens, t, now).val)

C3_Witness ==
    /\ last.op = "validate_bearer_token"
    /\ last.ok
    /\ last.key \in DOMAIN tokens
    /\ now = The(tokens[last.key].expires_at)

\* C4: once revoke_token(t) has returned true, validate_bearer_token(t) returns
\* nothing and revoke_token(t) returns false, in every later state.
C4_RevokedStaysInvalid ==
    \A t \in revoked :
        /\ ~IsSome(validate_bearer_token(backend, tokens, t, now).val)
        /\ ~revoke_token(tokens, t).existed

C4_Witness ==
    /\ last.op = "validate_bearer_token"
    /\ last.key \in revoked
    /\ ~last.ok
    /\ tokens # EmptyMap

\* C8: an exchange mints a token only if the verifier matches the stored
\* challenge; an exchange of a stored, unexpired code whose verifier does not
\* match fails with "Invalid PKCE code verifier" and adds nothing to the token
\* store.
C8_PkceRequired ==
    \A c \in CodeIds, v \in Verifiers, pb \in PresentedBindings :
        LET r == ExchangeNow(c, v, pb)
        IN  /\ r.ok => (c \in DOMAIN codes /\ VerifierMatches(v, codes[c]))
            /\ (c \in DOMAIN codes /\ now <= codes[c].expires_at
                    /\ ~VerifierMatches(v, codes[c]))
               => (~r.ok /\ r.err = "Invalid PKCE code verifier" /\ r.store = tokens)

C8_Witness ==
    /\ last.op = "exchange_code_for_token"
    /\ last.err = "Invalid PKCE code verifier"
    /\ last.key \in DOMAIN codes

\* C9: a stored code expires at created_at + 10 minutes; an exchange of a code
\* whose expires_at lies in the past fails with "Authorization code expired"
\* whatever the verifier and parameters, mints no token, and the code is no
\* longer in the code store afterwards.
C9_ExpiredCodeRejected ==
    \A c \in DOMAIN codes :
        /\ codes[c].expires_at = codes[c].created_at + CodeTTL
        /\ codes[c].expires_at < now =>
              \A v \in Verifiers, pb \in PresentedBindings :
                  LET r == ExchangeNow(c, v, pb)
                  IN  /\ ~r.ok /\ r.err = "Authorization code expired"
                      /\ r.store = tokens
                      /\ c \notin DOMAIN r.file

C9_Witness ==
    /\ last.op = "exchange_code_for_token"
    /\ last.err = "Authorization code expired"
    /\ last.key \notin DOMAIN codes

\* C11: an exchange of a stored, unexpired code with the matching verifier
\* that supplies a client_id different from the one stored with the code fails
\* with "Client ID mismatch"; one that passes the client_id check and supplies
\* a redirect_uri different from the one stored fails with "Redirect URI
\* mismatch"; in both cases the token store is unchanged.
C11_ClientBinding ==
    \A c \in DOMAIN codes, v \in Verifiers, pb \in PresentedBindings :
        LET d == codes[c]
            r == ExchangeNow(c, v, pb)
            passes == now <= d.expires_at /\ VerifierMatches(v, d)
            client_differs ==
                d.client_id \notin {None, ""} /\ pb[1] \notin {None, "", d.client_id}
            redirect_differs ==
                d.redirect_uri \notin {None, ""} /\ pb[2] \notin {None, "", d.redirect_uri}
        IN  /\ (passes /\ client_differs) =>
                  (~r.ok /\ r.err = "Client ID mismatch" /\ r.store = tokens)
            /\ (passes /\ ~client_differs /\ redirect_differs) =>
                  (~r.ok /\ r.err = "Redirect URI mismatch" /\ r.store = tokens)

C11_Witness ==
    /\ last.op = "exchange_code_for_token"
    /\ last.err = "Redirect URI mismatch"
    /\ last.key \in DOMAIN codes
    /\ codes[last.key].client_id = "c1"

\* the flow a user could run from the current state: /callback issues a code
\* for (u, key, secret), /token exchanges it, and the token is validated
FlowNow(u) ==
    LET g == generate_authorization_code(codes, nextCode, u, ApiKey(u), ApiSecret(u),
                 v1, "plain", None, None, StateParam, now)
        x == exchange_code_for_token(g.file, tokens, nextToken, g.code, v1, None, None,
                                     now)
    IN  [ok |-> x.ok,
         val |-> validate_bearer_token(backend, x.store, generate_secure_token(nextToken),
                                       now).val]

\* C12: a code generated for (user_email, key, secret) and exchanged yields a
\* token whose validation returns that user_email and the plaintext key and
\* secret; and every stored token, whenever it validates, returns the plaintext
\* credentials of the user it was issued to.
C12_CredentialsRoundTrip ==
    /\ \A u \in Users :
          LET f == FlowNow(u)
          IN  /\ f.ok /\ IsSome(f.val)
              /\ The(f.val).user_email = u
              /\ The(f.val).extend_api_key = ApiKey(u)
              /\ The(f.val).extend_api_secret = ApiSecret(u)
    /\ \A t \in DOMAIN tokens :
          LET val == validate_bearer_token(backend, tokens, t, now).val
          IN  IsSome(val) =>
                  /\ The(val).user_email \in Users
                  /\ The(val).user_email = tokens[t].user_email
                  /\ The(val).extend_api_key = ApiKey(The(val).user_email)
                  /\ The(val).extend_api_secret = ApiSecret(The(val).user_email)

C12_Witness ==
    /\ last.op = "validate_bearer_token"
    /\ last.ok
    /\ last.key \in DOMAIN tokens
    /\ tokens[last.key].user_email = "u2"
    /\ now > tokens[last.key].created_at

\* the value is the base64 text of the XOR of credential cred with the key
EncryptedFormOf(value, cred) ==
    /\ DOMAIN value = {"b64"}
    /\ value.b64 = xor_bytes(cred.text)
    /\ value # cred

\* C13: every record of the authorization-code store and of the token store
\* holds the credential key and secret of its user in encrypted form, never the
\* plaintext, and validate_bearer_token leaves the stored records as they are.
C13_EncryptedAtRest ==
    /\ \A c \in DOMAIN codes :
          /\ EncryptedFormOf(codes[c].extend_api_key, ApiKey(codes[c].user_email))
          /\ EncryptedFormOf(codes[c].extend_api_secret, ApiSecret(codes[c].user_email))
    /\ \A t \in DOMAIN tokens :
          /\ EncryptedFormOf(tokens[t].extend_api_key, ApiKey(tokens[t].user_email))
          /\ EncryptedFormOf(tokens[t].extend_api_secret, ApiSecret(tokens[t].user_email))
          /\ LET r == validate_bearer_token(backend, tokens, t, now)
             IN  \A x \in DOMAIN r.store : r.store[x] = tokens[x]

C13_Witness ==
    /\ last.op = "validate_bearer_token"
    /\ last.ok
    /\ last.key \in DOMAIN tokens
    /\ codes # EmptyMap

\* the message of the first check of exchange_code_for_token that an exchange
\* of code c with verifier v and binding pb fails now, "" when it passes all
FirstFailure(c, v, pb) ==
    IF c \notin DOMAIN codes THEN "Invalid authorization code"
    ELSE IF codes[c].expires_at < now THEN "Authorization code expired"
    ELSE IF ~VerifierMatches(v, codes[c]) THEN "Invalid PKCE code verifier"
    ELSE IF codes[c].client_id \notin {None, ""} /\ pb[1] \notin {None, "", codes[c].client_id}
    THEN "Client ID mismatch"
    ELSE IF codes[c].redirect_uri \notin {None, ""}
            /\ pb[2] \notin {None, "", codes[c].redirect_uri}
    THEN "Redirect URI mismatch"
    ELSE ""

\* C24: exchange_code_for_token checks in the order code not found, code
\* expired, PKCE, client_id, redirect_uri, and raises the error of the first
\* check that fails; it succeeds when none fails.
C24_FirstFailureReported ==
    \A c \in CodeIds, v \in Verifiers, pb \in PresentedBindings :
        LET r == ExchangeNow(c, v, pb)
        IN  /\ r.err = FirstFailure(c, v, pb)
            /\ r.ok <=> FirstFailure(c, v, pb) = ""
C24_Witness ==
    /\ last.op = "exchange_code_for_token"
    /\ last.err = "Invalid PKCE code verifier"
    /\ last.key \in DOMAIN codes
    /\ codes[last.key].client_id = "c1"
    /\ ExchangeNow(last.key, v2, <<"c2", "r2">>).err = "Invalid PKCE code verifier"
    /\ \E c \in CodeIds \ DOMAIN codes :
          ExchangeNow(c, v2, <<"c2", "r2">>).err = "Invalid authorization code"

\* C25: a successful exchange returns {access_token, token_type "Bearer",
\* expires_in = the configured lifetime, scope}; the access token is new, and
\* afterwards the token store holds for it a record with the code's
\* user_email, the code's encrypted credentials as they were stored (one
\* encryption of the user's credentials) and expires_at = now + the configured
\* lifetime, the other records are as before, and the code store no longer
\* holds the code.
C25_SuccessfulExchange ==
    \A c \in DOMAIN codes, v \in Verifiers, pb \in PresentedBindings :
        LET r == ExchangeNow(c, v, pb)
            access_token == generate_secure_token(nextToken)
        IN  r.ok =>
              /\ r.resp = Some([access_token |-> access_token, token_type |-> "Bearer",
                                expires_in |-> TokenTTL, scope |-> "mcp"])
              /\ access_token \notin DOMAIN tokens
              /\ DOMAIN r.store = DOMAIN tokens \cup {access_token}
              /\ \A x \in DOMAIN tokens : r.store[x] = tokens[x]
              /\ r.store[access_token].token = access_token
              /\ r.store[access_token].user_email = codes[c].user_email
              /\ r.store[access_token].extend_api_key = codes[c].extend_api_key
              /\ r.store[access_token].extend_api_secret = codes[c].extend_api_secret
              /\ EncryptedFormOf(r.store[access_token].extend_api_key,
                                 ApiKey(codes[c].user_email))
              /\ EncryptedFormOf(r.store[access_token].extend_api_secret,
                                 ApiSecret(codes[c].user_email))
              /\ r.store[access_token].expires_at = Some(now + TokenTTL)
              /\ DOMAIN r.file = DOMAIN codes \ {c}
              /\ \A x \in DOMAIN r.file : r.file[x] = codes[x]
C25_Witness ==
    /\ last.op = "exchange_code_for_token"
    /\ last.ok
    /\ last.key \notin DOMAIN codes
    /\ codes # EmptyMap
    /\ \E x \in DOMAIN tokens :
          /\ tokens[x].created_at = now
          /\ tokens[x].expires_at = Some(now + TokenTTL)
          /\ now > 0

MismatchMessages ==
    {"Invalid PKCE code verifier", "Client ID mismatch", "Redirect URI mismatch"}

\* C26: an exchange that fails with a PKCE, client_id or redirect_uri
\* mismatch leaves the code store and the token store as they were, and the
\* same code presented afterwards, at any time up to its expiry, with the
\* verifier of its challenge and the client_id and redirect_uri it was issued
\* for, is exchanged successfully.
C26_MismatchLeavesStores ==
    \A c \in DOMAIN codes, v \in Verifiers, pb \in PresentedBindings \cup {<<"c2", "r2">>} :
        LET r == ExchangeNow(c, v, pb)
        IN  r.err \in MismatchMessages =>
              /\ ~r.ok
              /\ r.file = codes
              /\ r.store = tokens
              /\ \A t \in now..codes[c].expires_at, w \in Verifiers :
                    VerifierMatches(w, codes[c]) =>
                        exchange_code_for_token(r.file, r.store, nextToken, c, w,
                            codes[c].client_id, codes[c].redirect_uri, t).ok
C26_Witness ==
    /\ last.op = "exchange_code_for_token"
    /\ last.err = "Client ID mismatch"
    /\ last.key \in DOMAIN codes
    /\ codes[last.key].expires_at > now
    /\ ExchangeNow(last.key, v1, <<"c1", "r1">>).ok
    /\ ExchangeNow(last.key, v2, <<"c1", "r1">>).err = "Invalid PKCE code verifier"
    /\ ExchangeNow(last.key, v1, <<"c1", "r2">>).err = "Redirect URI mismatch"

\* what a caller presents when it leaves out client_id, redirect_uri or both
\* (absent or empty)
OmittedBindings ==
    {<<None, None>>, <<"", "">>, <<None, "r1">>, <<"c1", None>>, <<"", "r1">>, <<"c1", "">>}

\* C27: a code stored with a client_id and a redirect_uri, unexpired and
\* presented with the verifier of its challenge, is exchanged successfully
\* when the caller leaves out client_id, redirect_uri or both (and supplies
\* the stored value for the one it does not leave out).
C27_OmittedBindingNotChecked ==
    \A c \in DOMAIN codes, v \in Verifiers, pb \in OmittedBindings :
        (/\ codes[c].client_id = "c1"
         /\ codes[c].redirect_uri = "r1"
         /\ codes[c].expires_at >= now
         /\ VerifierMatches(v, codes[c]))
        => ExchangeNow(c, v, pb).ok
C27_Witness ==
    /\ last.op = "exchange_code_for_token"
    /\ last.ok
    /\ \E x \in DOMAIN tokens : tokens[x].user_email = "u1" /\ tokens[x].created_at = now
    /\ \E c \in DOMAIN codes :
          /\ codes[c].client_id = "c1"
          /\ codes[c].redirect_uri = "r1"
          /\ codes[c].expires_at >= now
          /\ ExchangeNow(c, v1, <<None, None>>).ok
          /\ ExchangeNow(c, v1, <<"c1", None>>).ok
          /\ ~ExchangeNow(c, v1, <<"c2", "r1">>).ok

\* C30: validate_bearer_token on a token whose record is in the token store
\* with expires_at before now returns nothing, as it does for a token that is
\* not in the store, and afterwards the record is gone from the token store
\* while every other record is as before.
C30_ExpiredTokenLikeAbsent ==
    \A tok \in DOMAIN tokens :
        (IsSome(tokens[tok].expires_at) /\ The(tokens[tok].expires_at) < now) =>
            LET r == validate_bearer_token(backend, tokens, tok, now)
                absent == validate_bearer_token(backend, tokens,
                              generate_secure_token(MaxCodes + 1), now)
            IN  /\ r.val = Nothing
                /\ r.val = absent.val
                /\ absent.store = tokens
                /\ DOMAIN r.store = DOMAIN tokens \ {tok}
                /\ \A x \in DOMAIN r.store : r.store[x] = tokens[x]
C30_Witness ==
    /\ last.op = "validate_bearer_token"
    /\ ~last.ok
    /\ last.key \in TokenIds
    /\ last.key \notin DOMAIN tokens
    /\ last.key \notin revoked
    /\ \E x \in DOMAIN tokens : IsSome(tokens[x].expires_at) /\ The(tokens[x].expires_at) < now

\* ------------------------------------------------------------- POST /token
\* The JSONResponse of token_endpoint
TokenError(file, store, error, description) ==
    [file |-> file, store |-> store, status |-> 400, error |-> error,
     error_description |-> description, body |-> Nothing]

\* token_endpoint from the point where request.form() has returned: both stores
\* after the handler and its response; n is the serial generate_secure_token
\* draws
token_endpoint(file, store, n, form, t) ==
    IF form.grant_type # "authorization_code"
    THEN TokenError(file, store, "unsupported_grant_type",
                    "Only authorization_code grant type is supported")
    ELSE IF IsEmptyStr(form.code)
    THEN TokenError(file, store, "invalid_request", "Missing authorization code")
    ELSE IF IsEmptyStr(form.code_verifier)
    THEN TokenError(file, store, "invalid_request", "Missing PKCE code_verifier")
    ELSE LET r == exchange_code_for_token(file, store, n, form.code,
                      form.code_verifier, form.client_id, form.redirect_uri, t)
         IN  IF r.ok
             THEN [file |-> r.file, store |-> r.store, status |-> 200,
                   error |-> "", error_description |-> "", body |-> r.resp]
             ELSE TokenError(r.file, r.store, "invalid_grant", r.err)

\* a client posts a form to /token; the handler is suspended in
\* `await request.form()`
TokenRequest(i, form) ==
    /\ treq[i].pc = "idle"
    /\ i > 1 => treq[i - 1].pc # "idle"
    /\ treq' = [treq EXCEPT ![i] = [@ EXCEPT !.pc = "form", !.form = form]]
    /\ UNCHANGED <<now, backend, codes, tokens, nextCode, nextToken, last,
                   exchanged, revoked, auth_mode, mreq, ctx>>
    /\ UNCHANGED auxvars
    /\ UNCHANGED stepvars

\* request.form() returns and the handler runs to its response: nothing it
\* awaits after that point yields to the event loop
TokenEndpoint(i) ==
    /\ treq[i].pc = "form"
    /\ LET f == treq[i].form
           r == token_endpoint(codes, tokens, nextToken, f, now)
       IN  /\ codes' = r.file
           /\ tokens' = r.store
           /\ nextToken' = IF r.status = 200 THEN nextToken + 1 ELSE nextToken
           /\ exchanged' = IF r.status = 200 THEN exchanged \cup {f.code} ELSE exchanged
           /\ treq' = [treq EXCEPT ![i] =
                  [pc |-> "done", form |-> f, status |-> r.status, error |-> r.error,
                   error_description |-> r.error_description, body |-> r.body,
                   grantable |-> Grantable(codes, f, now),
                   raced |-> \E j \in TokenReqs \ {i} :
                                treq[j].pc = "form" /\ treq[j].form = f]]
    /\ UNCHANGED <<now, backend, nextCode, last, revoked, auth_mode, mreq, ctx>>
    /\ UNCHANGED auxvars
    /\ UNCHANGED stepvars

\* /callback issues the one code the clients of /token race for
NextToken ==
    \/ Tick
    \/ \E g \in GenerateInputs :
          nextCode = TokenCode[2] /\ GenerateAuthorizationCode(g[1], g[2], g[3])
    \/ \E i \in TokenReqs, f \in TokenForms : TokenRequest(i, f)
    \/ \E i \in TokenReqs : TokenEndpoint(i)

SpecToken == Init /\ [][NextToken]_vars

\* -------------------------------------------------------- claims: SpecToken
\* C2: of two requests to /token that present the same form, naming a stored,
\* unexpired code with the correct verifier and parameters, exactly one is
\* answered with the token response and the other with the invalid_grant error
\* "Invalid authorization code", whatever the order in which the event loop
\* resumes them, and exactly one bearer token is in the token store.
C2_OneWinner ==
    \A i \in TokenReqs :
        (treq[i].pc = "done" /\ treq[i].grantable) =>
            /\ treq[i].status = 200
            /\ IsSome(treq[i].body)
            /\ DOMAIN tokens = {The(treq[i].body).access_token}
            /\ \A j \in TokenReqs \ {i} :
                  (treq[j].pc = "done" /\ treq[j].form = treq[i].form) =>
                      /\ treq[j].status = 400
                      /\ treq[j].error = "invalid_grant"
                      /\ treq[j].error_description = "Invalid authorization code"
                      /\ ~IsSome(treq[j].body)

C2_Witness ==
    \E i, j \in TokenReqs :
        /\ i # j
        /\ treq[i].pc = "done" /\ treq[j].pc = "done"
        /\ treq[i].form = treq[j].form
        /\ treq[i].raced /\ treq[i].grantable
        /\ treq[i].status = 200
        /\ treq[j].error_description = "Invalid authorization code"
        /\ Cardinality(DOMAIN tokens) = 1

\* the forms the rules of /token are compared on: those the clients send, and
\* forms to which more than one rule applies
RuleForms ==
    TokenForms
    \cup {TokenForm("refresh_token", NoStr, NoStr, None, None),
          TokenForm("client_credentials", TokenCode, NoStr, None, None),
          TokenForm("", TokenCode, v1, None, None),
          TokenForm("authorization_code", NoStr, NoStr, None, None),
          TokenForm("authorization_code", <<"code_", 0>>, v1, None, None),
          TokenForm("authorization_code", TokenCode, v1, "c2", "r2")}

StoreAuthCode(c) ==
    /\ codes' = store_auth_code(codes,
                    LET g == StoreInput
                    IN  AuthCodeData(c, g[1], simple_encrypt(ApiKey(g[1])),
                                     simple_encrypt(ApiSecret(g[1])), g[2][1], g[2][2],
                                     g[3][1], g[3][2], StateParam, now))
    /\ last' = Result("store_auth_code", c, TRUE, "", Nothing)
    /\ UNCHANGED <<now, backend, tokens, nextCode, nextToken, exchanged, revoked>>
    /\ UNCHANGED reqvars
    /\ UNCHANGED auxvars
    /\ UNCHANGED stepvars

\* a lookup on the code store itself (AuthCodeStore.get_auth_code)
GetAuthCode(c) ==
    /\ last' = Result("get_auth_code", c, IsSome(get_auth_code(codes, c)), "",
                      get_auth_code(codes, c))
    /\ UNCHANGED <<now, backend, codes, tokens, nextCode, nextToken, exchanged,
                   revoked>>
    /\ UNCHANGED reqvars
    /\ UNCHANGED auxvars
    /\ UNCHANGED stepvars

\* a lookup on the token store itself (TokenStore.get_token of the backend)
GetToken(tok) ==
    /\ LET r == get_token(backend, tokens, tok, now)
       IN  /\ tokens' = r.store
           /\ last' = Result("get_token", tok, IsSome(r.val), "", r.val)
    /\ UNCHANGED <<now, backend, codes, nextCode, nextToken, exchanged, revoked>>
    /\ UNCHANGED reqvars
    /\ UNCHANGED auxvars
    /\ UNCHANGED stepvars

DeleteAuthCode(c) ==
    /\ LET r == delete_auth_code(codes, c)
       IN  /\ codes' = r.file
           /\ last' = Result("delete_auth_code", c, r.existed, "", Nothing)
    /\ UNCHANGED <<now, backend, tokens, nextCode, nextToken, exchanged, revoked>>
    /\ UNCHANGED reqvars
    /\ UNCHANGED auxvars
    /\ UNCHANGED stepvars

CleanupExpiredCodes ==
    /\ LET r == cleanup_expired_codes(codes, now)
       IN  /\ codes' = r.file
           /\ last' = Result("cleanup_expired_codes", NoStr, r.count > 0, "", r.count)
    /\ UNCHANGED <<now, backend, tokens, nextCode, nextToken, exchanged, revoked>>
    /\ UNCHANGED reqvars
    /\ UNCHANGED auxvars
    /\ UNCHANGED stepvars

\* TokenStore.store_token of a record built now, with or without an expiry
StoreToken(tok, expires) ==
    /\ tokens' = store_token(tokens,
                     LET u == StoreInput[1]
                     IN  TokenData(tok, u, simple_encrypt(ApiKey(u)),
                                   simple_encrypt(ApiSecret(u)),
                                   IF expires THEN Some(now + TokenTTL) ELSE Nothing,
                                   now))
    /\ last' = Result("store_token", tok, TRUE, "", Nothing)
    /\ UNCHANGED <<now, backend, codes, nextCode, nextToken, exchanged, revoked>>
    /\ UNCHANGED reqvars
    /\ UNCHANGED auxvars
    /\ UNCHANGED stepvars

DeleteToken(tok) ==
    /\ LET r == delete_token(tokens, tok)
       IN  /\ tokens' = r.store
           /\ last' = Result("delete_token", tok, r.existed, "", Nothing)
    /\ UNCHANGED <<now, backend, codes, nextCode, nextToken, exchanged, revoked>>
    /\ UNCHANGED reqvars
    /\ UNCHANGED auxvars
    /\ UNCHANGED stepvars

CleanupExpiredTokens ==
    /\ LET r == cleanup_expired_tokens(tokens, now)
       IN  /\ tokens' = r.store
           /\ last' = Result("cleanup_expired_tokens", NoStr, r.count > 0, "", r.count)
    /\ UNCHANGED <<now, backend, codes, nextCode, nextToken, exchanged, revoked>>
    /\ UNCHANGED reqvars
    /\ UNCHANGED auxvars
    /\ UNCHANGED stepvars

NextStore ==
    \/ Tick
    \/ \E c \in StoreCodes : StoreAuthCode(c)
    \/ \E c \in StoreCodes : GetAuthCode(c)
    \/ \E c \in StoreCodes : DeleteAuthCode(c)
    \/ CleanupExpiredCodes
    \/ \E tok \in StoreTokens, e \in BOOLEAN : StoreToken(tok, e)
    \/ \E tok \in StoreTokens : GetToken(tok)
    \/ \E tok \in StoreTokens : DeleteToken(tok)
    \/ CleanupExpiredTokens

SpecStore == Init /\ [][NextStore]_vars

UserContext(token_data) ==
    [user_email |-> token_data.user_email, token |-> token_data.token,
     extend_api_key |-> token_data.extend_api_key,
     extend_api_secret |-> token_data.extend_api_secret]

create_extend_api(uc) == ExtendAPI(uc.extend_api_key, uc.extend_api_secret)

\* authenticate_request: the token store after the call and the UserContext
authenticate_request(mode, b, store, header, t) ==
    IF mode # "oauth" THEN [store |-> store, uc |-> Nothing]
    ELSE IF ~startswith(header, "Bearer ") THEN [store |-> store, uc |-> Nothing]
    ELSE LET r == validate_bearer_token(b, store, header[2], t)
         IN  [store |-> r.store,
              uc |-> IF IsSome(r.val) THEN Some(UserContext(The(r.val))) ELSE Nothing]

\* mutant: a context already set is not replaced
set_user_context_first(cur, user_context) == IF IsSome(cur) THEN cur ELSE user_context

\* set_user_context: the new value of _current_user_context
set_user_context(cur, user_context) == user_context

\* mutant: the context survives the request
clear_user_context_keep(cur) == cur

clear_user_context(cur) == set_user_context(cur, Nothing)

BaseUrl == <<"https", "mcp.example">>
WwwAuthenticate(base_url) ==
    <<"Bearer realm=MCP Server, resource_metadata_uri=", base_url,
      "/.well-known/oauth-protected-resource">>

\* authenticate_mcp_request: the token store and the context after the call;
\* ok = FALSE is the raised MCPAuthenticationError
authenticate_mcp_request(mode, b, store, cur, header, t) ==
    IF mode # "oauth" THEN [store |-> store, ctx |-> cur, ok |-> TRUE]
    ELSE LET a == authenticate_request(mode, b, store, header, t)
         IN  IF ~IsSome(a.uc) THEN [store |-> a.store, ctx |-> cur, ok |-> FALSE]
             ELSE [store |-> a.store, ctx |-> set_user_context(cur, a.uc), ok |-> TRUE]

\* get_current_extend_api: ok = FALSE is the raised RuntimeError
get_current_extend_api(mode, cur) ==
    IF mode = "oauth" /\ IsSome(cur)
    THEN [ok |-> TRUE, api |-> create_extend_api(The(cur))]
    ELSE IF mode = "api_key" THEN [ok |-> TRUE, api |-> ServerApi]
    ELSE [ok |-> FALSE, api |-> NoApi]

AllowedTools == {"get_virtual_cards"}

\* the finally clause of mcp_endpoint: auth_middleware exists in OAuth mode only
Finally(mode, cur) == IF mode = "oauth" THEN clear_user_context(cur) ELSE cur

\* mcp_endpoint returns a response
McpDone(mode, store, cur, resp, attached) ==
    [store |-> store, ctx |-> Finally(mode, cur), pc |-> "done", resp |-> resp,
     attached |-> attached, ran |-> FALSE, api |-> NoApi,
     left |-> Finally(mode, cur)]

JsonRpcError(status, code, message) == McpResponse(status, code, message, Nothing, "")

\* mcp_endpoint once authenticate_mcp_request has returned or raised (auth): the
\* token store and the context after the handler, where the handler is, and its
\* response
mcp_dispatch(mode, auth, body) ==
    IF ~auth.ok
    THEN IF body.json = "array"
         THEN McpDone(mode, auth.store, auth.ctx,
                      JsonRpcError(500, -32603, "Internal server error"), FALSE)
         ELSE McpDone(mode, auth.store, auth.ctx,
                      McpResponse(401, -32001, "Authentication required",
                                  Some(WwwAuthenticate(BaseUrl)), ""), FALSE)
    ELSE IF body.json = "none"
    THEN McpDone(mode, auth.store, auth.ctx,
                 JsonRpcError(400, -32600, "Invalid Request"), mode = "oauth")
    ELSE IF body.json = "array"
    THEN McpDone(mode, auth.store, auth.ctx,
                 JsonRpcError(500, -32603, "Internal server error"), mode = "oauth")
    ELSE IF body.jsonrpc # "2.0"
    THEN McpDone(mode, auth.store, auth.ctx,
                 JsonRpcError(400, -32600, "Invalid Request"), mode = "oauth")
    ELSE IF body.method = "initialize"
    THEN McpDone(mode, auth.store, auth.ctx,
                 McpResponse(200, 0, "", Nothing, "serverInfo"), mode = "oauth")
    ELSE IF body.method = "tools/list"
    THEN McpDone(mode, auth.store, auth.ctx,
                 McpResponse(200, 0, "", Nothing, "tools"), mode = "oauth")
    ELSE IF body.method # "tools/call"
    THEN McpDone(mode, auth.store, auth.ctx,
                 JsonRpcError(200, -32601, "Method not found"), mode = "oauth")
    ELSE IF body.tool \notin AllowedTools
    THEN McpDone(mode, auth.store, auth.ctx,
                 JsonRpcError(200, -32601, "Tool not found"), mode = "oauth")
    ELSE IF ~get_current_extend_api(mode, auth.ctx).ok
    THEN McpDone(mode, auth.store, auth.ctx,
                 JsonRpcError(200, -32603, "Tool execution error"), mode = "oauth")
    ELSE [store |-> auth.store, ctx |-> auth.ctx, pc |-> "running",
          resp |-> NoResponse, attached |-> mode = "oauth", ran |-> TRUE,
          api |-> get_current_extend_api(mode, auth.ctx).api, left |-> Nothing]

\* mcp_endpoint from the point where the body has been read up to its response
\* or to `await extend_api.run(...)`
mcp_endpoint(mode, b, store, cur, req, t) ==
    IF req.http = "POST" /\ req.body.json = "invalid"
    THEN McpDone(mode, store, cur, JsonRpcError(400, -32700, "Parse error"), FALSE)
    ELSE mcp_dispatch(mode,
                      authenticate_mcp_request(mode, b, store, cur, req.header, t),
                      IF req.http = "POST" THEN req.body ELSE NoBody)

\* the token store after user u has been through /callback and /token at time t
Issue(store, n, u, t) ==
    LET g == generate_authorization_code(EmptyMap, n, u, ApiKey(u), ApiSecret(u),
                 v1, "plain", None, None, StateParam, t)
    IN  exchange_code_for_token(g.file, store, n, g.code, v1, None, None, t).store

\* the server once both users hold a bearer token
InitMcp ==
    /\ now = 0
    /\ backend \in {"json", "dynamodb"}
    /\ auth_mode \in {"oauth", "api_key"}
    /\ codes = EmptyMap
    /\ tokens = IF auth_mode = "oauth"
                THEN Issue(Issue(EmptyMap, 1, "u1", 0), 2, "u2", 0)
                ELSE EmptyMap
    /\ nextCode = 3
    /\ nextToken = 3
    /\ last = Result("init", NoStr, TRUE, "", Nothing)
    /\ exchanged = {}
    /\ revoked = {}
    /\ treq = [i \in TokenReqs |-> IdleTokenReq]
    /\ mreq = [i \in McpReqs |-> IdleMcpReq]
    /\ ctx = Nothing
    /\ creq = [i \in CbReqs |-> IdleCbReq]
    /\ storeFailed = {}
    /\ lock = 0
    /\ fop = [i \in FileOps |-> IdleFileOp]
    /\ files = [i \in Instances |-> EmptyMap]
    /\ call = IdleCall
    /\ xreq = [i \in XReqs |-> IdleXReq]
    /\ pending_selections = EmptyMap
    /\ conf = [i \in ConfReqs |-> IdleConf]
    /\ applied = EmptyMap

\* a client sends a request to /mcp; the handler is about to read the body
McpRequest(i, req) ==
    /\ mreq[i].pc = "idle"
    /\ i > 1 => mreq[i - 1].pc # "idle"
    /\ mreq' = [mreq EXCEPT ![i] = [@ EXCEPT !.pc = "recv", !.req = req]]
    /\ UNCHANGED <<now, backend, codes, tokens, nextCode, nextToken, last,
                   exchanged, revoked, auth_mode, treq, ctx>>
    /\ UNCHANGED auxvars
    /\ UNCHANGED stepvars

\* the body has been read and the handler runs until it responds or awaits the
\* tool operation
McpEndpoint(i) ==
    /\ mreq[i].pc = "recv"
    /\ \E r \in {mcp_endpoint(auth_mode, backend, tokens, ctx, mreq[i].req, now)} :
           /\ tokens' = r.store
           /\ ctx' = r.ctx
           /\ mreq' = [mreq EXCEPT ![i] =
                  [pc |-> r.pc, req |-> @.req, resp |-> r.resp,
                   rejected |-> /\ auth_mode = "oauth"
                                /\ ~IsSome(authenticate_request(auth_mode, backend,
                                               tokens, @.req.header, now).uc),
                   attached |-> r.attached, ran |-> r.ran, api |-> r.api,
                   left |-> r.left]]
    /\ UNCHANGED <<now, backend, codes, nextCode, nextToken, last, exchanged,
                   revoked, auth_mode, treq>>
    /\ UNCHANGED auxvars
    /\ UNCHANGED stepvars

\* extend_api.run returns, raises, or the request is cancelled while it waits;
\* the finally clause runs in each case
McpToolReturns(i, outcome) ==
    /\ mreq[i].pc = "running"
    /\ mreq' = [mreq EXCEPT ![i] = [@ EXCEPT !.pc = "done", !.resp =
                  IF outcome = "ok" THEN McpResponse(200, 0, "", Nothing, "content")
                  ELSE IF outcome = "error"
                  THEN JsonRpcError(200, -32603, "Tool execution error")
                  ELSE NoResponse,
                  !.left = Finally(auth_mode, ctx)]]
    /\ ctx' = Finally(auth_mode, ctx)
    /\ UNCHANGED <<now, backend, codes, tokens, nextCode, nextToken, last,
                   exchanged, revoked, auth_mode, treq>>
    /\ UNCHANGED auxvars
    /\ UNCHANGED stepvars

\* the same step when the token store raises in get_token (RuntimeError of the
\* DynamoDB store, OSError of the file store): validate_bearer_token is reached
\* only in OAuth mode, after the body parsed, with a Bearer header whose token
\* has the prefix; authenticate_request catches the exception and returns None
McpEndpointStoreError(i) ==
    /\ mreq[i].pc = "recv"
    /\ auth_mode = "oauth"
    /\ ~(mreq[i].req.http = "POST" /\ mreq[i].req.body.json = "invalid")
    /\ startswith(mreq[i].req.header, "Bearer ")
    /\ ~IsEmptyStr(mreq[i].req.header[2])
    /\ startswith(mreq[i].req.header[2], "oauth_")
    /\ \E r \in {mcp_dispatch(auth_mode, [store |-> tokens, ctx |-> ctx, ok |-> FALSE],
                              IF mreq[i].req.http = "POST" THEN mreq[i].req.body
                              ELSE NoBody)} :
           /\ tokens' = r.store
           /\ ctx' = r.ctx
           /\ mreq' = [mreq EXCEPT ![i] =
                  [pc |-> r.pc, req |-> @.req, resp |-> r.resp, rejected |-> TRUE,
                   attached |-> r.attached, ran |-> r.ran, api |-> r.api,
                   left |-> r.left]]
    /\ storeFailed' = storeFailed \cup {i}
    /\ UNCHANGED <<now, backend, codes, nextCode, nextToken, last, exchanged,
                   revoked, auth_mode, treq>>
    /\ UNCHANGED <<creq, lock, fop, files>>
    /\ UNCHANGED stepvars

NextMcp ==
    \/ Tick
    \/ \E i \in McpReqs, req \in McpRequests : McpRequest(i, req)
    \/ \E i \in McpReqs : McpEndpoint(i)
    \/ \E i \in McpReqs : McpEndpointStoreError(i)
    \/ \E i \in McpReqs, o \in {"ok", "error", "cancelled"} : McpToolReturns(i, o)

SpecMcp == InitMcp /\ [][NextMcp]_vars

\* ---------------------------------------------------------- claims: SpecMcp
\* the bearer token InitMcp issued to user u
McpTokenOf(u) == generate_secure_token(IF u = "u1" THEN 1 ELSE 2)

\* C5: in OAuth mode, with several requests to /mcp in flight, a tool operation
\* runs with the Extend credentials of the user whose bearer token the same
\* request presented: never with those of a context another request set,
\* never without credentials because another request cleared the context.
C5_ToolRunsAsCaller ==
    \A i \in McpReqs :
        (auth_mode = "oauth" /\ mreq[i].ran) =>
            \E u \in Users :
                /\ mreq[i].req.header = Bearer(McpTokenOf(u))
                /\ mreq[i].api = ExtendAPI(ApiKey(u), ApiSecret(u))

C5_Witness ==
    \E i, j \in McpReqs :
        /\ i # j
        /\ mreq[i].pc = "running" /\ mreq[j].pc = "done"
        /\ mreq[i].ran /\ mreq[j].ran
        /\ mreq[i].api # mreq[j].api
        /\ mreq[i].req.header = Bearer(McpTokenOf("u1"))
        /\ ctx = Nothing

\* C6: a request to /mcp that has finished, by a response of any kind, by an
\* exception or by cancellation, left the server's user context empty in OAuth
\* mode, and whenever no request is in flight the context is empty.
C6_ContextCleared ==
    /\ \A i \in McpReqs : mreq[i].pc = "done" => ~IsSome(mreq[i].left)
    /\ (\A i \in McpReqs : mreq[i].pc \in {"idle", "done"}) => ~IsSome(ctx)

C6_Witness ==
    \E i, j \in McpReqs :
        /\ mreq[i].pc = "done" /\ mreq[j].pc = "done"
        /\ mreq[i].attached /\ mreq[i].resp.status = 500
        /\ mreq[j].attached /\ mreq[j].resp.result = "content"
        /\ ~IsSome(ctx)

\* C7, as stated: in OAuth mode a request to /mcp whose Authorization header
\* is absent, is not of the form 'Bearer <token>' or carries a token that
\* validate_bearer_token rejects is answered with the authentication error
\* (code, message, WWW-Authenticate challenge), has no context attached and
\* runs no tool operation.
C7_AuthFailureAnswered ==
    \A i \in McpReqs :
        (mreq[i].pc = "done" /\ mreq[i].rejected) =>
            /\ mreq[i].resp = McpResponse(401, -32001, "Authentication required",
                                          Some(WwwAuthenticate(BaseUrl)), "")
            /\ ~mreq[i].attached
            /\ ~mreq[i].ran

\* ------------------------------------------- GET /authorize, POST /callback
\* urllib.parse.urlparse, as far as the endpoints read it: scheme and netloc
urlparse(uri) ==
    CASE uri = "https://app.example/cb" -> [scheme |-> "https", netloc |-> "app.example"]
      [] uri = "https:///cb" -> [scheme |-> "https", netloc |-> ""]
      [] uri = "//app.example/cb" -> [scheme |-> "", netloc |-> "app.example"]
      [] OTHER -> [scheme |-> "", netloc |-> ""]

\* the redirect_uri strings a client may send; "" is an absent parameter
RedirectUris == {"https://app.example/cb", "https:///cb", "//app.example/cb", "app.example/cb"}

\* the query of GET /authorize
AuthorizeQuery(response_type, client_id, redirect_uri, code_challenge) ==
    [response_type |-> response_type, client_id |-> client_id,
     redirect_uri |-> redirect_uri, code_challenge |-> code_challenge]
AuthorizeQueries ==
    {AuthorizeQuery("code", "c1", uri, sha256_b64(v1)) : uri \in RedirectUris}
    \cup {AuthorizeQuery("", "c1", "https://app.example/cb", sha256_b64(v1)),
          AuthorizeQuery("token", "c1", "https://app.example/cb", sha256_b64(v1)),
          AuthorizeQuery("code", "", "https://app.example/cb", sha256_b64(v1)),
          AuthorizeQuery("code", "c1", "", sha256_b64(v1)),
          AuthorizeQuery("code", "c1", "https://app.example/cb", NoStr)}

\* authorize_endpoint: the status and the text of the response; 200 is the
\* login page, which carries the OAuth parameters as hidden fields
authorize_endpoint(q) ==
    IF q.response_type = "" THEN [status |-> 400, body |-> "Missing response_type parameter"]
    ELSE IF q.response_type # "code"
    THEN [status |-> 400, body |-> "Unsupported response_type. Only 'code' is supported."]
    ELSE IF q.client_id = "" THEN [status |-> 400, body |-> "Missing client_id parameter"]
    ELSE IF q.redirect_uri = "" THEN [status |-> 400, body |-> "Missing redirect_uri parameter"]
    ELSE IF q.code_challenge = NoStr
    THEN [status |-> 400, body |-> "Missing code_challenge parameter (PKCE required)"]
    ELSE IF urlparse(q.redirect_uri).scheme = "" \/ urlparse(q.redirect_uri).netloc = ""
    THEN [status |-> 400, body |-> "Invalid redirect_uri format"]
    ELSE [status |-> 200, body |-> "oauth_login.html"]

\* the forms a client may post to /callback without having loaded the login
\* page: complete ones, and ones with a field left out
CbForms ==
    {CbForm("u1", ApiKey("u1"), ApiSecret("u1"), "c1", uri, sha256_b64(v1), "S256") :
        uri \in {"https://app.example/cb", "app.example/cb"}}
    \cup {CbForm("", ApiKey("u1"), ApiSecret("u1"), "c1", "https://app.example/cb", sha256_b64(v1), "S256"),
          CbForm("u2", ApiKey("u2"), NoText, "c1", "https://app.example/cb", sha256_b64(v1), "S256"),
          CbForm("u2", ApiKey("u2"), ApiSecret("u2"), None, "", sha256_b64(v1), "S256"),
          CbForm("u2", ApiKey("u2"), ApiSecret("u2"), None, "https://app.example/cb", NoStr, "S256")}

\* mutant: no field is required
all_required_fields_any(form) == TRUE

\* all([user_email, extend_api_key, extend_api_secret, redirect_uri,
\* code_challenge])
all_required_fields(form) ==
    /\ form.user_email # ""
    /\ form.extend_api_key # NoText
    /\ form.extend_api_secret # NoText
    /\ form.redirect_uri # ""
    /\ form.code_challenge # NoStr

\* what ExtendClient.virtual_cards.get_virtual_cards does in the credential
\* check, and what the code store does when the code is saved
CallbackOutcomes == {"ok", "raises", "store_raises"}

\* GET /authorize: answered at once; the login page is the same request slot
\* waiting for the user to submit the form
AuthorizeEndpoint(i, q) ==
    /\ creq[i].pc = "idle"
    /\ LET r == authorize_endpoint(q)
       IN  creq' = [creq EXCEPT ![i] =
               IF r.status = 200
               THEN [@ EXCEPT !.pc = "login", !.authorized = TRUE,
                        !.form = CbForm("", NoText, NoText, q.client_id, q.redirect_uri,
                                        q.code_challenge, "S256")]
               ELSE [@ EXCEPT !.pc = "done", !.status = r.status, !.body = r.body]]
    /\ UNCHANGED <<now, backend, codes, tokens, nextCode, nextToken, last,
                   exchanged, revoked, storeFailed, lock, fop, files>>
    /\ UNCHANGED reqvars
    /\ UNCHANGED stepvars

\* POST /callback arrives: from the login page, with the hidden fields it was
\* rendered with and the credentials of user u, or from a client of its own
CallbackRequest(i, form) ==
    /\ creq[i].pc = "idle"
    /\ creq' = [creq EXCEPT ![i] = [@ EXCEPT !.pc = "form", !.form = form]]
    /\ UNCHANGED <<now, backend, codes, tokens, nextCode, nextToken, last,
                   exchanged, revoked, storeFailed, lock, fop, files>>
    /\ UNCHANGED reqvars
    /\ UNCHANGED stepvars

LoginSubmit(i, u) ==
    /\ creq[i].pc = "login"
    /\ creq' = [creq EXCEPT ![i] = [@ EXCEPT !.pc = "form",
                   !.form = [@ EXCEPT !.user_email = u, !.extend_api_key = ApiKey(u),
                                      !.extend_api_secret = ApiSecret(u)]]]
    /\ UNCHANGED <<now, backend, codes, tokens, nextCode, nextToken, last,
                   exchanged, revoked, storeFailed, lock, fop, files>>
    /\ UNCHANGED reqvars
    /\ UNCHANGED stepvars

\* callback_endpoint from the parsed form up to the credential check
CallbackEndpoint(i) ==
    /\ creq[i].pc = "form"
    /\ creq' = [creq EXCEPT ![i] =
           IF all_required_fields(creq[i].form)
           THEN [@ EXCEPT !.pc = "validating"]
           ELSE [@ EXCEPT !.pc = "done", !.status = 400, !.body = "Missing required fields"]]
    /\ UNCHANGED <<now, backend, codes, tokens, nextCode, nextToken, last,
                   exchanged, revoked, storeFailed, lock, fop, files>>
    /\ UNCHANGED reqvars
    /\ UNCHANGED stepvars

\* callback_endpoint from the answer of the credential check to the response
CallbackReturns(i, outcome) ==
    /\ creq[i].pc = "validating"
    /\ nextCode <= MaxCodes
    /\ LET f == creq[i].form
           g == generate_authorization_code(codes, nextCode, f.user_email,
                    f.extend_api_key, f.extend_api_secret, f.code_challenge,
                    f.code_challenge_method, f.client_id, f.redirect_uri, StateParam, now)
       IN  IF outcome = "raises"
           THEN /\ creq' = [creq EXCEPT ![i] = [@ EXCEPT !.pc = "done", !.status = 400,
                               !.validated = outcome,
                               !.body = "Invalid Extend API credentials"]]
                /\ UNCHANGED <<codes, nextCode>>
           ELSE IF outcome = "store_raises"
           THEN /\ creq' = [creq EXCEPT ![i] = [@ EXCEPT !.pc = "done", !.status = 500,
                               !.validated = "ok",
                               !.body = "Internal server error during authentication"]]
                /\ UNCHANGED <<codes, nextCode>>
           ELSE /\ creq' = [creq EXCEPT ![i] = [@ EXCEPT !.pc = "done", !.status = 302,
                               !.validated = outcome,
                               !.body = f.redirect_uri, !.code = Some(g.code)]]
                /\ codes' = g.file
                /\ nextCode' = nextCode + 1
    /\ UNCHANGED <<now, backend, tokens, nextToken, last, exchanged, revoked,
                   storeFailed, lock, fop, files>>
    /\ UNCHANGED reqvars
    /\ UNCHANGED stepvars

NextCallback ==
    \/ \E i \in CbReqs, q \in AuthorizeQueries : AuthorizeEndpoint(i, q)
    \/ \E i \in CbReqs, u \in Users : LoginSubmit(i, u)
    \/ \E i \in CbReqs, form \in CbForms : CallbackRequest(i, form)
    \/ \E i \in CbReqs : CallbackEndpoint(i)
    \/ \E i \in CbReqs, outcome \in CallbackOutcomes : CallbackReturns(i, outcome)

SpecCallback == Init /\ [][NextCallback]_vars

\* ----------------------------------------------------- claims: SpecCallback
\* C14: POST /callback issues an authorization code only after the credential
\* check returned: every stored code belongs to a request whose form had all
\* the required fields and whose check succeeded, and that request was
\* answered with the redirect; a request with a missing field or a failed
\* check is answered with 400 and gets no code.
C14_CodeOnlyAfterValidation ==
    /\ \A c \in DOMAIN codes :
          \E i \in CbReqs :
              /\ creq[i].code = Some(c)
              /\ creq[i].validated = "ok"
              /\ creq[i].status = 302
              /\ creq[i].form.user_email # ""
              /\ creq[i].form.extend_api_key # NoText
              /\ creq[i].form.extend_api_secret # NoText
              /\ creq[i].form.redirect_uri # ""
              /\ creq[i].form.code_challenge # NoStr
              /\ codes[c].user_email = creq[i].form.user_email
    /\ \A i \in CbReqs :
          /\ IsSome(creq[i].code) => The(creq[i].code) \in DOMAIN codes
          /\ (creq[i].pc = "done" /\ (\/ creq[i].form.user_email = ""
                                       \/ creq[i].form.extend_api_key = NoText
                                       \/ creq[i].form.extend_api_secret = NoText
                                       \/ creq[i].form.redirect_uri = ""
                                       \/ creq[i].form.code_challenge = NoStr))
                => (creq[i].status = 400 /\ creq[i].code = Nothing)
          /\ (creq[i].pc = "done" /\ creq[i].validated = "raises")
                => (creq[i].status = 400 /\ creq[i].code = Nothing)
C14_Witness ==
    \E i, j \in CbReqs :
        /\ creq[i].pc = "done" /\ creq[i].validated = "raises"
        /\ creq[j].pc = "done" /\ creq[j].status = 400 /\ creq[j].validated = ""
        /\ creq[j].form.extend_api_secret = NoText
        /\ codes = EmptyMap

\* C15: no authorization code is stored for a redirect_uri that does not
\* parse with a scheme and a host.
C15_AbsoluteRedirectUri ==
    \A c \in DOMAIN codes :
        /\ urlparse(codes[c].redirect_uri).scheme # ""
        /\ urlparse(codes[c].redirect_uri).netloc # ""

\* -------------------------------------------------------------- POST /revoke
\* what a client may send as the token parameter; NoStr is a missing one
RevokeTokens == PresentedTokens \cup {NoStr}

\* revoke_endpoint: the token store after the request and the JSON response;
\* fails is the token store raising in delete_token
revoke_endpoint(store, form_token, fails) ==
    IF IsEmptyStr(form_token)
    THEN [store |-> store, status |-> 400, error |-> "invalid_request",
          revoked |-> FALSE, existed |-> FALSE]
    ELSE IF fails
    THEN [store |-> store, status |-> 500, error |-> "server_error",
          revoked |-> FALSE, existed |-> FALSE]
    ELSE LET r == revoke_token(store, form_token)
         IN  [store |-> r.store, status |-> 200, error |-> "",
              revoked |-> TRUE, existed |-> r.existed]

\* POST /revoke; last.ok is the response 200 {"revoked": true}
RevokeEndpoint(form_token, fails) ==
    /\ \E r \in {revoke_endpoint(tokens, form_token, fails)} :
          /\ tokens' = r.store
          /\ last' = Result("revoke_endpoint", form_token,
                            r.status = 200 /\ r.revoked, r.error, Nothing)
          /\ revoked' = IF r.existed THEN revoked \cup {form_token} ELSE revoked
    /\ UNCHANGED <<now, backend, codes, nextCode, nextToken, exchanged>>
    /\ UNCHANGED reqvars
    /\ UNCHANGED auxvars
    /\ UNCHANGED stepvars

\* revocation does not read the clock: the tokens revoked here are issued and
\* revoked at one instant
NextRevoke ==
    \/ \E g \in GenerateInputs : GenerateAuthorizationCode(g[1], g[2], g[3])
    \/ \E c \in CodeIds, x \in ExchangeInputs :
          ExchangeCodeForToken(c, x[1], x[2][1], x[2][2])
    \/ \E tok \in RevokeTokens, fails \in BOOLEAN : RevokeEndpoint(tok, fails)

SpecRevoke == Init /\ [][NextRevoke]_vars

\* ------------------------------------------------------- claims: SpecRevoke
\* C16: a POST /revoke that carries a non-empty token, and during which the
\* token store does not fail, is answered 200 {revoked: true} whether or not
\* the token existed, and the token is absent from the store afterwards.
C16_RevokeSuccessShaped ==
    \A tok \in PresentedTokens :
        LET r == revoke_endpoint(tokens, tok, FALSE)
        IN  /\ r.status = 200
            /\ r.revoked
            /\ r.error = ""
            /\ r.existed = (tok \in DOMAIN tokens)
            /\ tok \notin DOMAIN r.store
            /\ \A x \in DOMAIN tokens : x # tok => (x \in DOMAIN r.store /\ r.store[x] = tokens[x])
C16_Witness ==
    /\ last.op = "revoke_endpoint"
    /\ last.ok
    /\ last.key \notin revoked
    /\ revoked # {}
    /\ tokens # EmptyMap

\* C16 as stated: every POST /revoke is answered 200 {revoked: true}.
C16_AlwaysSuccess == last.op = "revoke_endpoint" => last.ok

\* ---------------------------------------------- claims: SpecMcp, store errors
\* C18: a request during whose authentication the token store raised is not
\* answered like a request whose token is missing or invalid, that is with
\* 401 "Authentication required".
C18_StoreErrorDistinguishable ==
    \A i \in storeFailed :
        mreq[i].pc = "done" =>
            mreq[i].resp # McpResponse(401, -32001, "Authentication required",
                                       Some(WwwAuthenticate(BaseUrl)), "")

\* ------------------------------------------ JSONTokenStore under concurrency
\* Each method of JSONTokenStore (and, line for line, of AuthCodeStore) is
\* "async with self._lock: load; mutate; save".  The steps below let another
\* coroutine run at every await inside a method, which is more interleaving
\* than the blocking file calls allow.
FileKeys == {generate_secure_token(1), generate_secure_token(2)}
\* the calls made on the store: the method and the token it is about
FileCalls ==
    {<<"store_token", k>> : k \in FileKeys}
    \cup {<<"get_token", generate_secure_token(1)>>,
          <<"delete_token", generate_secure_token(1)>>,
          <<"cleanup_expired_tokens", NoStr>>}

\* mutant: the lock is granted while another coroutine holds it
lock_free_always(l) == TRUE

\* asyncio.Lock.acquire returns when the lock is not held
lock_free(l) == l = 0

\* what the method writes back, from the content it loaded; saved is whether
\* _save_tokens is called at all
file_op(o, loaded, t) ==
    CASE o.op = "store_token" ->
             [saved |-> TRUE, content |-> store_token(loaded, The(o.data)), ret |-> TRUE]
      [] o.op = "get_token" ->
             [saved |-> FALSE, content |-> loaded,
              ret |-> IsSome(JSONTokenStore_get_token(loaded, o.key).val)]
      [] o.op = "delete_token" ->
             [saved |-> delete_token(loaded, o.key).existed,
              content |-> delete_token(loaded, o.key).store,
              ret |-> delete_token(loaded, o.key).existed]
      [] OTHER ->
             [saved |-> cleanup_expired_tokens(loaded, t).count > 0,
              content |-> cleanup_expired_tokens(loaded, t).store,
              ret |-> cleanup_expired_tokens(loaded, t).count > 0]

\* the file after the operations S run one after the other, in every order,
\* each at the instant it finished
RECURSIVE Serial(_, _)
Serial(file, S) ==
    IF S = {} THEN {file}
    ELSE UNION {Serial(file_op(fop[i], file, fop[i].at).content, S \ {i}) : i \in S}

\* a coroutine calls a method of the store; the TokenData of store_token is
\* built by the caller
FileCall(i, op, key) ==
    /\ fop[i].pc = "idle"
    /\ i > 1 => fop[i - 1].pc # "idle"
    /\ fop' = [fop EXCEPT ![i] = [@ EXCEPT !.pc = "waiting", !.op = op, !.key = key,
                  !.data = IF op = "store_token"
                           THEN Some(TokenData(key, "u1", simple_encrypt(ApiKey("u1")),
                                               simple_encrypt(ApiSecret("u1")),
                                               Some(now + TokenTTL), now))
                           ELSE Nothing,
                  !.contended = lock # 0]]
    /\ UNCHANGED <<now, backend, codes, tokens, nextCode, nextToken, last,
                   exchanged, revoked, creq, storeFailed, lock, files>>
    /\ UNCHANGED reqvars
    /\ UNCHANGED stepvars

\* async with self._lock
FileAcquire(i) ==
    /\ fop[i].pc = "waiting"
    /\ lock_free(lock)
    /\ lock' = i
    /\ fop' = [fop EXCEPT ![i] = [@ EXCEPT !.pc = "locked"]]
    /\ UNCHANGED <<now, backend, codes, tokens, nextCode, nextToken, last,
                   exchanged, revoked, creq, storeFailed, files>>
    /\ UNCHANGED reqvars
    /\ UNCHANGED stepvars

\* tokens = await self._load_tokens()
FileLoad(i) ==
    /\ fop[i].pc = "locked"
    /\ fop' = [fop EXCEPT ![i] = [@ EXCEPT !.pc = "loaded", !.loaded = tokens]]
    /\ UNCHANGED <<now, backend, codes, tokens, nextCode, nextToken, last,
                   exchanged, revoked, creq, storeFailed, lock, files>>
    /\ UNCHANGED reqvars
    /\ UNCHANGED stepvars

\* the mutation, await self._save_tokens(tokens) where the method saves, and
\* the release of the lock on leaving the with block
FileSave(i) ==
    /\ fop[i].pc = "loaded"
    /\ \E r \in {file_op(fop[i], fop[i].loaded, now)} :
          /\ tokens' = IF r.saved THEN r.content ELSE tokens
          /\ fop' = [fop EXCEPT ![i] = [@ EXCEPT !.pc = "done", !.ret = r.ret, !.at = now]]
    /\ lock' = 0
    /\ UNCHANGED <<now, backend, codes, nextCode, nextToken, last,
                   exchanged, revoked, creq, storeFailed, files>>
    /\ UNCHANGED reqvars
    /\ UNCHANGED stepvars

NextFile ==
    \/ Tick
    \/ \E i \in FileOps, c \in FileCalls : FileCall(i, c[1], c[2])
    \/ \E i \in FileOps : FileAcquire(i)
    \/ \E i \in FileOps : FileLoad(i)
    \/ \E i \in FileOps : FileSave(i)

SpecFile == Init /\ [][NextFile]_vars

\* --------------------------------------------------------- claims: SpecFile
\* C19: no lost updates in the durable-file store: at most one operation is
\* between acquiring and releasing the lock, and the file content is always
\* what the finished operations leave when run one after the other in some
\* order; two finished store calls for different keys leave both records.
C19_NoLostUpdate ==
    /\ \A i, j \in FileOps :
          (fop[i].pc \in {"locked", "loaded"} /\ fop[j].pc \in {"locked", "loaded"}) => i = j
    /\ tokens \in Serial(EmptyMap, {i \in FileOps : fop[i].pc = "done"})
    /\ \A i, j \in FileOps :
          (/\ \A k \in FileOps : fop[k].pc = "done" => k \in {i, j}
           /\ fop[i].pc = "done" /\ fop[i].op = "store_token"
           /\ fop[j].pc = "done" /\ fop[j].op = "store_token")
              => {fop[i].key, fop[j].key} \subseteq DOMAIN tokens
C19_Witness ==
    \E i, j \in FileOps :
        /\ fop[i].pc = "done" /\ fop[i].op = "store_token"
        /\ fop[j].pc = "done" /\ fop[j].op = "store_token"
        /\ fop[i].key # fop[j].key
        /\ fop[j].contended
        /\ DOMAIN tokens = {fop[i].key, fop[j].key}

\* ------------------------------------------------------ several instances
\* Server instances built by ExtendMCPServer.oauth_instance with the DynamoDB
\* token store: create_token_store gives every instance the same table
\* (tokens), and OAuthHandler.__init__ gives every instance an AuthCodeStore
\* on the local file mcp_auth_codes.json of its own host (files[inst]).
InitMulti == Init /\ backend = "dynamodb"

MultiGenerate(inst, u, ch, cb) ==
    /\ nextCode <= MaxCodes
    /\ \E r \in {generate_authorization_code(files[inst], nextCode, u, ApiKey(u),
                     ApiSecret(u), ch[1], ch[2], cb[1], cb[2], StateParam, now)} :
          /\ files' = [files EXCEPT ![inst] = r.file]
          /\ last' = Result("generate_authorization_code", r.code, TRUE, "", Nothing)
    /\ nextCode' = nextCode + 1
    /\ UNCHANGED <<now, backend, codes, tokens, nextToken, exchanged, revoked,
                   creq, storeFailed, lock, fop>>
    /\ UNCHANGED reqvars
    /\ UNCHANGED stepvars

MultiExchange(inst, c, v, cid, ruri) ==
    /\ \E r \in {exchange_code_for_token(files[inst], tokens, nextToken, c, v, cid,
                     ruri, now)} :
          /\ files' = [files EXCEPT ![inst] = r.file]
          /\ tokens' = r.store
          /\ last' = Result("exchange_code_for_token", c, r.ok, r.err, r.resp)
          /\ nextToken' = IF r.ok THEN nextToken + 1 ELSE nextToken
          /\ exchanged' = IF r.ok THEN exchanged \cup {c} ELSE exchanged
    /\ UNCHANGED <<now, backend, codes, nextCode, revoked, creq, storeFailed, lock, fop>>
    /\ UNCHANGED reqvars
    /\ UNCHANGED stepvars

\* every instance validates against the one table
MultiValidate(inst, tok) ==
    /\ \E r \in {validate_bearer_token(backend, tokens, tok, now)} :
          /\ tokens' = r.store
          /\ last' = Result("validate_bearer_token", tok, IsSome(r.val), "", r.val)
    /\ UNCHANGED <<now, backend, codes, nextCode, nextToken, exchanged, revoked>>
    /\ UNCHANGED reqvars
    /\ UNCHANGED auxvars
    /\ UNCHANGED stepvars

NextMulti ==
    \/ Tick
    \/ \E inst \in Instances, g \in GenerateInputs : MultiGenerate(inst, g[1], g[2], g[3])
    \/ \E inst \in Instances, c \in CodeIds, v \in Verifiers :
          MultiExchange(inst, c, v, None, None)
    \/ \E inst \in Instances, tok \in TokenIds : MultiValidate(inst, tok)

SpecMulti == InitMulti /\ [][NextMulti]_vars

\* -------------------------------------------------------- claims: SpecMulti
\* C20: with the managed backend, an authorization code issued by one
\* instance and not yet expired is exchanged for a token at every instance by
\* a client presenting the matching verifier (and a token issued through one
\* instance validates at every instance).
C20_CodeExchangesAnywhere ==
    \A issuer \in Instances, inst \in Instances :
        \A c \in DOMAIN files[issuer], v \in Verifiers :
            (now <= files[issuer][c].expires_at /\ VerifierMatches(v, files[issuer][c]))
                => exchange_code_for_token(files[inst], tokens, nextToken, c, v,
                                           None, None, now).ok

\* ------------------------------------------------- PKCE, character by character
\* A verifier <<"v", n>> is the string of MaxChars characters whose i-th
\* character is the i-th digit of n in base AlphabetSize.  SHA-256 is taken to
\* be free of collisions on these strings (sha256_b64 is injective).
PkceVerifiers == {<<"v", n>> : n \in 0..((AlphabetSize ^ MaxChars) - 1)}
CharAt(v, i) == (v[2] \div (AlphabetSize ^ (i - 1))) % AlphabetSize
\* the verifier with character i replaced by ch
SetChar(v, i, ch) == <<"v", v[2] + ((ch - CharAt(v, i)) * (AlphabetSize ^ (i - 1)))>>

PkceCall(verifier, pos, ch, method) ==
    [fn |-> "verify_pkce_challenge",
     args |-> [verifier |-> verifier, pos |-> pos, ch |-> ch, method |-> method],
     ret |-> <<>>]

InitPkce ==
    /\ InitRest
    /\ call \in {PkceCall(v, i, ch, m) :
                    v \in PkceVerifiers, i \in 1..MaxChars,
                    ch \in 0..(AlphabetSize - 1), m \in Methods}

\* generate_pkce_challenge(v, method), then verify_pkce_challenge of v and of
\* the verifier with one character replaced against that challenge; raised is
\* the ValueError of generate_pkce_challenge
VerifyPkceChallenge ==
    /\ call.fn = "verify_pkce_challenge"
    /\ call.ret = <<>>
    /\ LET a == call.args
           challenge == generate_pkce_challenge(a.verifier, a.method)
       IN  call' = [call EXCEPT !.ret =
               IF ~challenge.ok THEN <<[raised |-> TRUE, same |-> FALSE, other |-> FALSE]>>
               ELSE <<[raised |-> FALSE,
                       same |-> verify_pkce_challenge(a.verifier, challenge.val, a.method),
                       other |-> verify_pkce_challenge(SetChar(a.verifier, a.pos, a.ch),
                                                       challenge.val, a.method)]>>]
    /\ UNCHANGED <<now, backend, codes, tokens, nextCode, nextToken, last,
                   exchanged, revoked, xreq>>
    /\ UNCHANGED reqvars
    /\ UNCHANGED auxvars
    /\ UNCHANGED confvars

NextPkce == VerifyPkceChallenge

SpecPkce == InitPkce /\ [][NextPkce]_vars

startswith_apik_any(s) == TRUE

\* str.startswith("apik_"), str.split(",") and str.strip() on the strings the
\* calls below use
startswith_apik(s) == s \in {"apik_12345", "apik_env"}
split(s) ==
    CASE s = "tool1,invalid_tool" -> <<"tool1", "invalid_tool">>
      [] s = " all ,tool1" -> <<" all ", "tool1">>
      [] OTHER -> <<s>>
strip(s) == IF s = " all " THEN "all" ELSE s

valid_tools == {"tool1", "tool2"}

\* Options.__init__ followed by the validation of validate_options: err is
\* the ValueError raised, "" when the object is constructed
Options(tools, api_key, api_secret, oauth_mode, oauth_issuer) ==
    LET auth == IF oauth_mode THEN "oauth" ELSE "api_key"
        self == [tools |-> tools, auth_mode |-> auth, api_key |-> api_key,
                 api_secret |-> api_secret, oauth_mode |-> oauth_mode,
                 oauth_issuer |-> oauth_issuer]
        raise(msg) == [raised |-> TRUE, err |-> msg, self |-> self]
    IN  IF auth = "api_key" /\ ~Truthy(api_key)
        THEN raise("Extend API key not provided")
        ELSE IF auth = "api_key" /\ ~startswith_apik(api_key)
        THEN raise("Extend API key must start with apik_")
        ELSE IF auth = "api_key" /\ ~Truthy(api_secret)
        THEN raise("Extend API secret not provided")
        ELSE IF auth = "oauth" /\ ~Truthy(oauth_issuer)
        THEN raise("OAuth issuer not provided")
        ELSE IF ~Truthy(tools)
        THEN raise("The --tools argument must be provided")
        ELSE [raised |-> FALSE, err |-> "", self |-> self]

\* a command-line argument: dashes is startswith("--"), has_eq is "=" in the
\* text after the dashes, key and value are the two sides of the first "="
Arg(dashes, key, has_eq, value) ==
    [dashes |-> dashes, key |-> key, has_eq |-> has_eq, value |-> value]
Args ==
    {Arg(TRUE, "tools", TRUE, "all"),
     Arg(TRUE, "tools", TRUE, "tool1,invalid_tool"),
     Arg(TRUE, "tools", TRUE, " all ,tool1"),
     Arg(TRUE, "api-key", TRUE, "apik_12345"),
     Arg(TRUE, "api-secret", TRUE, "secret123"),
     Arg(TRUE, "oauth-mode", FALSE, ""),
     Arg(TRUE, "oauth-issuer", TRUE, "https://issuer.example"),
     Arg(TRUE, "api-key", FALSE, ""),
     Arg(TRUE, "invalid", TRUE, "value"),
     Arg(FALSE, "foo", FALSE, "")}
ArgLists == UNION {[1..n -> Args] : n \in 0..MaxArgs}
\* os.environ: EXTEND_API_KEY and EXTEND_API_SECRET
Environments ==
    {[EXTEND_API_KEY |-> None, EXTEND_API_SECRET |-> None],
     [EXTEND_API_KEY |-> "apik_env", EXTEND_API_SECRET |-> "env_secret"]}

\* the loop over args of Options.from_args, from argument i on; st holds the
\* local variables and err the ValueError raised
RECURSIVE parse_args(_, _, _)
parse_args(args, i, st) ==
    IF i > Len(args) \/ st.err # "" THEN st
    ELSE LET arg == args[i] IN
         IF ~arg.dashes THEN parse_args(args, i + 1, st)
         ELSE IF ~arg.has_eq
         THEN IF arg.key = "oauth-mode"
              THEN parse_args(args, i + 1, [st EXCEPT !.oauth_mode = TRUE])
              ELSE [st EXCEPT !.err = "is not in --key=value format"]
         ELSE CASE arg.key = "tools" ->
                       parse_args(args, i + 1, [st EXCEPT !.tools = arg.value])
                [] arg.key = "api-key" ->
                       parse_args(args, i + 1, [st EXCEPT !.api_key = arg.value])
                [] arg.key = "api-secret" ->
                       parse_args(args, i + 1, [st EXCEPT !.api_secret = arg.value])
                [] arg.key = "oauth-issuer" ->
                       parse_args(args, i + 1, [st EXCEPT !.oauth_issuer = arg.value])
                [] arg.key \in {"token-store-path", "token-expiry-hours"} ->
                       parse_args(args, i + 1, st)
                [] OTHER -> [st EXCEPT !.err = "Invalid argument"]

\* Options.from_args(args, valid_tools) with the environment env
from_args(args, env) ==
    LET st == parse_args(args, 1, [tools |-> "", api_key |-> None, api_secret |-> None,
                                   oauth_mode |-> FALSE, oauth_issuer |-> None,
                                   err |-> ""])
        names == split(st.tools)
        api_key == IF ~st.oauth_mode /\ ~Truthy(st.api_key)
                   THEN env.EXTEND_API_KEY ELSE st.api_key
        api_secret == IF ~st.oauth_mode /\ ~Truthy(st.api_secret)
                      THEN env.EXTEND_API_SECRET ELSE st.api_secret
    IN  IF st.err # "" THEN [raised |-> TRUE, err |-> st.err, self |-> st]
        ELSE IF \E k \in 1..Len(names) :
                    strip(names[k]) # "all" /\ strip(names[k]) \notin valid_tools
        THEN [raised |-> TRUE, err |-> "Invalid tool", self |-> st]
        ELSE Options(st.tools, api_key, api_secret, st.oauth_mode, st.oauth_issuer)

OptionsCall(tools, api_key, api_secret, oauth_mode, oauth_issuer) ==
    [fn |-> "Options",
     args |-> [tools |-> tools, api_key |-> api_key, api_secret |-> api_secret,
               oauth_mode |-> oauth_mode, oauth_issuer |-> oauth_issuer],
     ret |-> <<>>]
FromArgsCall(args, env) ==
    [fn |-> "from_args", args |-> [args |-> args, env |-> env], ret |-> <<>>]

InitOptions ==
    /\ InitRest
    /\ call \in {OptionsCall(t, k, s, m, i) :
                    t \in {None, "", "tool1"}, k \in {None, "invalid_key", "apik_12345"},
                    s \in {None, "secret123"}, m \in BOOLEAN,
                    i \in {None, "https://issuer.example"}}
                \cup {FromArgsCall(a, e) : a \in ArgLists, e \in Environments}

OptionsInit ==
    /\ call.fn = "Options"
    /\ call.ret = <<>>
    /\ call' = [call EXCEPT !.ret =
                   <<Options(call.args.tools, call.args.api_key, call.args.api_secret,
                             call.args.oauth_mode, call.args.oauth_issuer)>>]
    /\ UNCHANGED <<now, backend, codes, tokens, nextCode, nextToken, last,
                   exchanged, revoked, xreq>>
    /\ UNCHANGED reqvars
    /\ UNCHANGED auxvars
    /\ UNCHANGED confvars

OptionsFromArgs ==
    /\ call.fn = "from_args"
    /\ call.ret = <<>>
    /\ call' = [call EXCEPT !.ret = <<from_args(call.args.args, call.args.env)>>]
    /\ UNCHANGED <<now, backend, codes, tokens, nextCode, nextToken, last,
                   exchanged, revoked, xreq>>
    /\ UNCHANGED reqvars
    /\ UNCHANGED auxvars
    /\ UNCHANGED confvars

NextOptions == OptionsInit \/ OptionsFromArgs

SpecOptions == InitOptions /\ [][NextOptions]_vars

\* ------------------------------------------------------ claims: SpecOptions
\* the tools named by the last --tools argument of args, "" when there is none
RECURSIVE last_tools(_, _)
last_tools(args, i) ==
    IF i = 0 THEN ""
    ELSE IF args[i].dashes /\ args[i].has_eq /\ args[i].key = "tools" THEN args[i].value
    ELSE last_tools(args, i - 1)

\* C22: Options raises a ValueError in API-key mode when the API key is
\* missing, when it does not start with "apik_" or when the API secret is
\* missing, in OAuth mode when the issuer is missing, and in either mode when
\* tools is empty, and in no other case; from_args raises a ValueError when an
\* argument that starts with "--" has no "=" and is not --oauth-mode, when
\* such an argument has an unknown name, and when a tool is neither "all" nor
\* a valid tool.
C22_OptionsValidation ==
    /\ (call.fn = "Options" /\ call.ret # <<>>) =>
          LET a == call.args
          IN  call.ret[1].raised <=>
                  \/ ~a.oauth_mode /\ a.api_key \in {None, "", "invalid_key"}
                  \/ ~a.oauth_mode /\ a.api_secret \in {None, ""}
                  \/ a.oauth_mode /\ a.oauth_issuer \in {None, ""}
                  \/ a.tools \in {None, ""}
    /\ (call.fn = "from_args" /\ call.ret # <<>>) =>
          LET args == call.args.args
          IN  /\ (\E k \in 1..Len(args) :
                     args[k].dashes /\ ~args[k].has_eq /\ args[k].key # "oauth-mode")
                    => call.ret[1].raised
              /\ (\E k \in 1..Len(args) :
                     args[k].dashes /\ args[k].has_eq /\ args[k].key = "invalid")
                    => call.ret[1].raised
              /\ last_tools(args, Len(args)) \in {"", "tool1,invalid_tool"}
                    => call.ret[1].raised
C22_Witness ==
    /\ call.fn = "from_args"
    /\ call.ret # <<>>
    /\ call.ret[1].raised
    /\ call.ret[1].err = "is not in --key=value format"
    /\ Len(call.args.args) = MaxArgs
    /\ call.args.args[1].key = "tools"
    /\ call.args.args[2].key = "api-secret"

\* C22 as stated: from_args raises for every argument that is not in
\* --key=value form, the --oauth-mode flag excepted.
C22_EveryMalformedArgumentRejected ==
    (call.fn = "from_args" /\ call.ret # <<>>) =>
        ((\E k \in 1..Len(call.args.args) :
             /\ ~(call.args.args[k].dashes /\ call.args.args[k].has_eq)
             /\ ~(call.args.args[k].dashes /\ call.args.args[k].key = "oauth-mode"))
            => call.ret[1].raised)

\* ------------------------------------------------------------ Configuration
\* a Permissions dict maps some of the actions to a bool; dict.get(action,
\* False) is
permissions_get(permissions, action) ==
    IF action \in DOMAIN permissions THEN permissions[action] ELSE FALSE

ProductPermissions(type, permissions) == [type |-> type, permissions |-> permissions]
\* the entries a configuration is built from
ConfiguredPermissions ==
    {ProductPermissions("virtual_cards", "read" :> TRUE),
     ProductPermissions("virtual_cards", "update" :> TRUE),
     ProductPermissions("virtual_cards", ("read" :> TRUE) @@ ("update" :> FALSE)),
     ProductPermissions("virtual_cards", ("read" :> TRUE) @@ ("update" :> TRUE)),
     ProductPermissions("credit_cards", "read" :> TRUE)}
\* Configuration.product_permissions: None, or a list of entries
Configurations ==
    {Nothing} \cup {Some(l) : l \in UNION {[1..n -> ConfiguredPermissions] : n \in 0..MaxPerms}}

Tool(name, required_permissions) ==
    [name |-> name, required_permissions |-> required_permissions]
Tools ==
    {Tool("get_virtual_cards", <<ProductPermissions("virtual_cards", "read" :> TRUE)>>),
     Tool("update_virtual_card", <<ProductPermissions("virtual_cards", "update" :> TRUE)>>),
     Tool("get_credit_cards", <<ProductPermissions("credit_cards", "read" :> TRUE)>>),
     Tool("card_report", <<ProductPermissions("credit_cards", "read" :> TRUE),
                           ProductPermissions("virtual_cards", "update" :> TRUE)>>)}
ToolLists == UNION {[1..n -> Tools] : n \in 0..MaxTools}

\* next(filter(lambda x: x.type == type, product_permissions), None)
first_of_type(l, type) ==
    IF \E k \in 1..Len(l) : l[k].type = type
    THEN Some(l[CHOOSE k \in 1..Len(l) :
                    /\ l[k].type = type
                    /\ \A j \in 1..(k - 1) : l[j].type # type])
    ELSE Nothing

is_tool_permissible(product_permissions, tool) ==
    IF ~IsSome(product_permissions) \/ Len(The(product_permissions)) = 0 THEN FALSE
    ELSE \A r \in 1..Len(tool.required_permissions) :
            LET tool_permission == tool.required_permissions[r]
                configured_permission ==
                    first_of_type(The(product_permissions), tool_permission.type)
            IN  /\ IsSome(configured_permission)
                /\ \A permission \in DOMAIN tool_permission.permissions :
                       permissions_get(The(configured_permission).permissions, permission)

\* [tool for tool in tools if self.is_tool_permissible(tool)]
RECURSIVE allowed_tools(_, _)
allowed_tools(product_permissions, tools) ==
    IF tools = <<>> THEN <<>>
    ELSE (IF is_tool_permissible(product_permissions, Head(tools))
          THEN <<Head(tools)>> ELSE <<>>)
         \o allowed_tools(product_permissions, Tail(tools))

InitConfig ==
    /\ InitRest
    /\ call \in {[fn |-> "allowed_tools", args |-> [product_permissions |-> c, tools |-> t],
                  ret |-> <<>>] : c \in Configurations, t \in ToolLists}

AllowedToolsCall ==
    /\ call.fn = "allowed_tools"
    /\ call.ret = <<>>
    /\ call' = [call EXCEPT !.ret =
                   <<allowed_tools(call.args.product_permissions, call.args.tools)>>]
    /\ UNCHANGED <<now, backend, codes, tokens, nextCode, nextToken, last,
                   exchanged, revoked, xreq>>
    /\ UNCHANGED reqvars
    /\ UNCHANGED auxvars
    /\ UNCHANGED confvars

NextConfig == AllowedToolsCall

SpecConfig == InitConfig /\ [][NextConfig]_vars

\* ------------------------------------------------------- claims: SpecConfig
\* the configuration has an entry for the product of every requirement of the
\* tool with every required action set to true
Granted(product_permissions, tool) ==
    \A r \in 1..Len(tool.required_permissions) :
        /\ IsSome(product_permissions)
        /\ \E k \in 1..Len(The(product_permissions)) :
              /\ The(product_permissions)[k].type = tool.required_permissions[r].type
              /\ \A a \in DOMAIN tool.required_permissions[r].permissions :
                    /\ a \in DOMAIN The(product_permissions)[k].permissions
                    /\ The(product_permissions)[k].permissions[a]

RECURSIVE GrantedTools(_, _)
GrantedTools(product_permissions, tools) ==
    IF tools = <<>> THEN <<>>
    ELSE (IF Granted(product_permissions, Head(tools)) THEN <<Head(tools)>> ELSE <<>>)
         \o GrantedTools(product_permissions, Tail(tools))

\* C23: allowed_tools returns exactly the tools, in input order, for each of
\* whose requirements the configuration has an entry for that product with
\* every required action set to true.
C23_AllowedIffGranted ==
    (call.fn = "allowed_tools" /\ call.ret # <<>>) =>
        call.ret[1] = GrantedTools(call.args.product_permissions, call.args.tools)

\* ------------------------------- exchange_code_for_token, statement by statement
\* Calls of exchange_code_for_token suspend only where they await a store
\* method; each store method runs under the store's lock (or is one
\* DynamoDB request), so a call advances by one store method at a time.
\* The code store holds the codes of two completed logins.
ExchangeCodes ==
    LET f1 == generate_authorization_code(EmptyMap, 1, "u1", ApiKey("u1"), ApiSecret("u1"),
                  sha256_b64(v1), "S256", "c1", "r1", StateParam, 0).file
    IN  generate_authorization_code(f1, 2, "u2", ApiKey("u2"), ApiSecret("u2"),
                  v1, "plain", None, None, StateParam, 0).file

\* (code_verifier, client_id, redirect_uri) of a call
XInputs == {<<v1, None, None>>, <<v2, None, None>>, <<v1, "c2", "r1">>}

StoreTokenError == "Failed to store token"

InitExchange ==
    /\ now = 0
    /\ backend = "dynamodb"
    /\ codes = ExchangeCodes
    /\ tokens = EmptyMap
    /\ nextCode = 3
    /\ nextToken = 1
    /\ last = Result("init", <<"", 0>>, TRUE, "", Nothing)
    /\ exchanged = {}
    /\ revoked = {}
    /\ auth_mode = "oauth"
    /\ treq = [i \in TokenReqs |-> IdleTokenReq]
    /\ mreq = [i \in McpReqs |-> IdleMcpReq]
    /\ ctx = Nothing
    /\ creq = [i \in CbReqs |-> IdleCbReq]
    /\ storeFailed = {}
    /\ lock = 0
    /\ fop = [i \in FileOps |-> IdleFileOp]
    /\ files = [i \in Instances |-> EmptyMap]
    /\ call = IdleCall
    /\ xreq = [i \in XReqs |-> IdleXReq]
    /\ pending_selections = EmptyMap
    /\ conf = [i \in ConfReqs |-> IdleConf]
    /\ applied = EmptyMap

\* the checks between get_auth_code and generate_secure_token, for a code
\* that was found and is not expired: the message raised, "" when none is
exchange_checks(auth_data, code_verifier, client_id, redirect_uri) ==
    IF ~verify_pkce_challenge(code_verifier, auth_data.code_challenge,
                              auth_data.code_challenge_method)
    THEN "Invalid PKCE code verifier"
    ELSE IF Truthy(client_id) /\ Truthy(auth_data.client_id)
            /\ client_id # auth_data.client_id
    THEN "Client ID mismatch"
    ELSE IF Truthy(redirect_uri) /\ Truthy(auth_data.redirect_uri)
            /\ redirect_uri # auth_data.redirect_uri
    THEN "Redirect URI mismatch"
    ELSE ""

XRaise(q, msg) == [q EXCEPT !.pc = "done", !.ok = FALSE, !.err = msg]

\* the call is made
XCall(i, c, in) ==
    /\ xreq[i].pc = "idle"
    /\ xreq' = [xreq EXCEPT ![i] = [IdleXReq EXCEPT !.pc = "get_auth_code",
                    !.auth_code = c, !.code_verifier = in[1],
                    !.client_id = in[2], !.redirect_uri = in[3]]]
    /\ UNCHANGED <<now, backend, codes, tokens, nextCode, nextToken, last,
                   exchanged, revoked, call>>
    /\ UNCHANGED reqvars
    /\ UNCHANGED auxvars
    /\ UNCHANGED confvars

\* await get_auth_code, then everything up to the next await: the checks,
\* generate_secure_token and the construction of TokenData
XGetAuthCode(i) ==
    /\ xreq[i].pc = "get_auth_code"
    /\ LET q == xreq[i]
           auth == get_auth_code(codes, q.auth_code)
           valid == /\ q.auth_code \in DOMAIN codes
                    /\ codes[q.auth_code].expires_at >= now
                    /\ VerifierMatches(q.code_verifier, codes[q.auth_code])
                    /\ q.client_id \in {None, codes[q.auth_code].client_id}
                    /\ q.redirect_uri \in {None, codes[q.auth_code].redirect_uri}
       IN  IF ~IsSome(auth)
           THEN /\ xreq' = [xreq EXCEPT ![i] = XRaise(q, "Invalid authorization code")]
                /\ nextToken' = nextToken
           ELSE IF AuthCodeData_is_expired(The(auth), now)
           THEN /\ xreq' = [xreq EXCEPT ![i] = [q EXCEPT !.pc = "delete_expired",
                                !.auth_data = auth]]
                /\ nextToken' = nextToken
           ELSE \E e \in {exchange_checks(The(auth), q.code_verifier, q.client_id,
                                          q.redirect_uri)} :
                IF e # ""
                THEN /\ xreq' = [xreq EXCEPT ![i] = [XRaise(q, e) EXCEPT !.auth_data = auth]]
                     /\ nextToken' = nextToken
                ELSE /\ xreq' = [xreq EXCEPT ![i] = [q EXCEPT !.pc = "store_token",
                            !.auth_data = auth, !.valid = valid,
                            !.token_data = Some(TokenData(generate_secure_token(nextToken),
                                The(auth).user_email, The(auth).extend_api_key,
                                The(auth).extend_api_secret, Some(now + TokenTTL), now))]]
                     /\ nextToken' = nextToken + 1
    /\ UNCHANGED <<now, backend, codes, tokens, nextCode, last, exchanged, revoked, call>>
    /\ UNCHANGED reqvars
    /\ UNCHANGED auxvars
    /\ UNCHANGED confvars

\* the expired code is deleted and the call raises
XDeleteExpired(i) ==
    /\ xreq[i].pc = "delete_expired"
    /\ codes' = delete_auth_code(codes, xreq[i].auth_code).file
    /\ xreq' = [xreq EXCEPT ![i] = XRaise(xreq[i], "Authorization code expired")]
    /\ UNCHANGED <<now, backend, tokens, nextCode, nextToken, last, exchanged, revoked, call>>
    /\ UNCHANGED reqvars
    /\ UNCHANGED auxvars
    /\ UNCHANGED confvars

\* await token_store.store_token
XStoreToken(i) ==
    /\ xreq[i].pc = "store_token"
    /\ tokens' = store_token(tokens, The(xreq[i].token_data))
    /\ xreq' = [xreq EXCEPT ![i].pc = "delete_auth_code"]
    /\ UNCHANGED <<now, backend, codes, nextCode, nextToken, last, exchanged, revoked, call>>
    /\ UNCHANGED reqvars
    /\ UNCHANGED auxvars
    /\ UNCHANGED confvars

\* mutant: the code is deleted before the token is stored
XStoreTokenFails_deleted(i) ==
    /\ xreq[i].pc = "store_token"
    /\ codes' = delete_auth_code(codes, xreq[i].auth_code).file
    /\ xreq' = [xreq EXCEPT ![i] = XRaise(xreq[i], StoreTokenError)]
    /\ UNCHANGED <<now, backend, tokens, nextCode, nextToken, last,
                   exchanged, revoked, call>>
    /\ UNCHANGED reqvars
    /\ UNCHANGED auxvars
    /\ UNCHANGED confvars

\* store_token raises (put_item is refused, or the file cannot be written) and
\* the call raises with it
XStoreTokenFails(i) ==
    /\ xreq[i].pc = "store_token"
    /\ xreq' = [xreq EXCEPT ![i] = XRaise(xreq[i], StoreTokenError)]
    /\ UNCHANGED <<now, backend, codes, tokens, nextCode, nextToken, last,
                   exchanged, revoked, call>>
    /\ UNCHANGED reqvars
    /\ UNCHANGED auxvars
    /\ UNCHANGED confvars

\* await auth_code_store.delete_auth_code, then the response is returned
XDeleteAuthCode(i) ==
    /\ xreq[i].pc = "delete_auth_code"
    /\ codes' = delete_auth_code(codes, xreq[i].auth_code).file
    /\ xreq' = [xreq EXCEPT ![i].pc = "done", ![i].ok = TRUE,
                    ![i].resp = Some([access_token |-> The(xreq[i].token_data).token,
                                      token_type |-> "Bearer",
                                      expires_in |-> TokenTTL, scope |-> "mcp"])]
    /\ UNCHANGED <<now, backend, tokens, nextCode, nextToken, last, exchanged, revoked, call>>
    /\ UNCHANGED reqvars
    /\ UNCHANGED auxvars
    /\ UNCHANGED confvars

NextExchange ==
    \/ Tick
    \/ \E i \in XReqs, c \in CodeIds, in \in XInputs : XCall(i, c, in)
    \/ \E i \in XReqs : XGetAuthCode(i)
    \/ \E i \in XReqs : XDeleteExpired(i)
    \/ \E i \in XReqs : XStoreToken(i)
    \/ \E i \in XReqs : XStoreTokenFails(i)
    \/ \E i \in XReqs : XDeleteAuthCode(i)

SpecExchange == InitExchange /\ [][NextExchange]_vars

\* ------------------------------------------------------ claims: SpecExchange
\* C28: the token is stored before the code is deleted. A call whose
\* store_token failed has raised, its token is not in the token store, and
\* its code is still in the code store unless another call named the same
\* code; and every code that has left the code store was named by a call that
\* either found it expired or stored its token before deleting the code.
C28_TokenStoredBeforeCodeDeleted ==
    /\ \A i \in XReqs :
          xreq[i].err = StoreTokenError =>
              /\ xreq[i].pc = "done"
              /\ ~xreq[i].ok
              /\ The(xreq[i].token_data).token \notin DOMAIN tokens
              /\ (\A j \in XReqs \ {i} : xreq[j].auth_code # xreq[i].auth_code)
                     => xreq[i].auth_code \in DOMAIN codes
    /\ \A c \in DOMAIN ExchangeCodes \ DOMAIN codes :
          \E i \in XReqs :
              /\ xreq[i].auth_code = c
              /\ xreq[i].pc = "done"
              /\ \/ xreq[i].err = "Authorization code expired"
                 \/ /\ xreq[i].ok
                    /\ The(xreq[i].token_data).token \in DOMAIN tokens
                    /\ tokens[The(xreq[i].token_data).token].user_email
                           = ExchangeCodes[c].user_email
C28_Witness ==
    \E i, j \in XReqs :
        /\ xreq[i].err = StoreTokenError
        /\ xreq[i].auth_code \in DOMAIN codes
        /\ xreq[j].ok
        /\ xreq[j].auth_code \notin DOMAIN codes
        /\ The(xreq[j].token_data).token \in DOMAIN tokens

\* C29: calls for different stored codes do not disturb one another. A call
\* that found its code stored, unexpired, with the verifier of its challenge
\* and nothing presented that contradicts its binding, whose code no other
\* call names and whose store_token did not fail, has, once it is over,
\* succeeded: its token is in the token store with the user_email and the
\* credentials of its own code, whatever the other calls have done, and its
\* code is deleted.
C29_DifferentCodesIndependent ==
    \A i \in XReqs :
        (/\ xreq[i].pc = "done"
         /\ xreq[i].valid
         /\ xreq[i].err # StoreTokenError
         /\ \A j \in XReqs \ {i} : xreq[j].auth_code # xreq[i].auth_code)
        => LET c == xreq[i].auth_code
               access_token == The(xreq[i].token_data).token
           IN  /\ xreq[i].ok
               /\ IsSome(xreq[i].resp)
               /\ The(xreq[i].resp).access_token = access_token
               /\ \A j \in XReqs \ {i} :
                     IsSome(xreq[j].token_data) => The(xreq[j].token_data).token # access_token
               /\ access_token \in DOMAIN tokens
               /\ tokens[access_token].user_email = ExchangeCodes[c].user_email
               /\ tokens[access_token].extend_api_key = ExchangeCodes[c].extend_api_key
               /\ tokens[access_token].extend_api_secret = ExchangeCodes[c].extend_api_secret
               /\ c \notin DOMAIN codes
C29_Witness ==
    \E i, j \in XReqs :
        /\ xreq[i].ok /\ xreq[j].ok
        /\ xreq[i].valid /\ xreq[j].valid
        /\ xreq[i].auth_code # xreq[j].auth_code
        /\ The(xreq[i].token_data).created_at > The(xreq[j].token_data).created_at
        /\ The(xreq[i].token_data).token = generate_secure_token(2)
        /\ codes = EmptyMap
        /\ DOMAIN tokens = {generate_secure_token(1), generate_secure_token(2)}
        /\ tokens[generate_secure_token(1)].user_email
               # tokens[generate_secure_token(2)].user_email

\* ------------------------------------- validate_bearer_token over any store
\* the token store written through the store API, where a record may sit
\* under any key: the empty string, a string without the prefix, a token
ValidateKeys == {<<"", 0>>, <<"other_", 1>>, generate_secure_token(1)}

NextValidate ==
    \/ Tick
    \/ \E tok \in ValidateKeys, e \in BOOLEAN : StoreToken(tok, e)
    \/ \E tok \in ValidateKeys : ValidateBearerToken(tok)

SpecValidate == Init /\ [][NextValidate]_vars

\* C31: validate_bearer_token of the empty string or of a string without the
\* "oauth_" prefix returns nothing and leaves the token store as it is,
\* whether or not the store holds a record under that key, expired or not
\* (a lookup of an expired record on the DynamoDB backend would delete it).
C31_PrefixRejectedWithoutLookup ==
    \A tok \in {<<"", 0>>, <<"other_", 1>>} :
        validate_bearer_token(backend, tokens, tok, now) = [store |-> tokens, val |-> Nothing]
C31_Witness ==
    /\ last.op = "validate_bearer_token"
    /\ last.key = <<"other_", 1>>
    /\ ~last.ok
    /\ backend = "dynamodb"
    /\ <<"", 0>> \in DOMAIN tokens
    /\ <<"other_", 1>> \in DOMAIN tokens
    /\ tokens[<<"other_", 1>>].expires_at = Some(now - 1)
    /\ tokens[<<"", 0>>].expires_at = Some(now + 1)

\* ------------------------------------------------------- the expiry sweeps
CleanupCodes == {generate_authorization_code_str(1), generate_authorization_code_str(2)}
CleanupTokens == {generate_secure_token(1), generate_secure_token(2)}

NextCleanup ==
    \/ Tick
    \/ \E c \in CleanupCodes : StoreAuthCode(c)
    \/ \E tok \in CleanupTokens, e \in BOOLEAN : StoreToken(tok, e)
    \/ CleanupExpiredCodes
    \/ CleanupExpiredTokens
    \/ CleanupExpiredData

SpecCleanup == Init /\ [][NextCleanup]_vars

\* records whose expiry lies in the past
PastTokens == {k \in DOMAIN tokens :
                  IsSome(tokens[k].expires_at) /\ The(tokens[k].expires_at) < now}
PastCodes == {c \in DOMAIN codes : codes[c].expires_at < now}

\* C32: the sweep of a store deletes exactly the records whose expiry lies in
\* the past and returns their number, every other record staying as it is;
\* cleanup_expired_data does so on the token store and on the code store,
\* reports both numbers, and leaves no record with a past expiry in either.
C32_SweepDeletesExactlyExpired ==
    LET t == cleanup_expired_tokens(tokens, now)
        c == cleanup_expired_codes(codes, now)
        d == cleanup_expired_data(codes, tokens, now)
    IN  /\ DOMAIN t.store = DOMAIN tokens \ PastTokens
        /\ \A k \in DOMAIN t.store : t.store[k] = tokens[k]
        /\ t.count = Cardinality(PastTokens)
        /\ DOMAIN c.file = DOMAIN codes \ PastCodes
        /\ \A k \in DOMAIN c.file : c.file[k] = codes[k]
        /\ c.count = Cardinality(PastCodes)
        /\ d.store = t.store
        /\ d.file = c.file
        /\ d.expired_tokens_cleaned = t.count
        /\ d.expired_codes_cleaned = c.count
        /\ \A k \in DOMAIN d.store :
              ~(IsSome(d.store[k].expires_at) /\ The(d.store[k].expires_at) < now)
        /\ \A k \in DOMAIN d.file : ~(d.file[k].expires_at < now)
C32_Witness ==
    /\ last.op = "cleanup_expired_tokens"
    /\ last.ok
    /\ \E k \in DOMAIN tokens : tokens[k].expires_at = Some(now)
    /\ Cardinality(PastCodes) = 1
    /\ Cardinality(DOMAIN codes) = 2
    /\ cleanup_expired_data(codes, tokens, now).expired_codes_cleaned = 1
    /\ cleanup_expired_data(codes, tokens, now).expired_tokens_cleaned = 0

\* ------------------------------------------ claims: the two token backends
\* C33: on the same records and at the same clock value, get_token of the
\* file backend and get_token of the DynamoDB backend return the same result
\* and leave the same records.
C33_BackendsAgree ==
    \A tok \in StoreTokens :
        JSONTokenStore_get_token(tokens, tok) = DynamoDBTokenStore_get_token(tokens, tok, now)

\* ------------------------------------------ PKCE methods through the handler
\* a string with a character outside ASCII, as a form may carry it
NonAscii == <<"u", 1>>
\* code_verifier and code_challenge strings: verifiers, a digest, a string
\* outside ASCII
PkceStrings == Verifiers \cup {sha256_b64(v1), NonAscii}
\* (code_challenge, code_challenge_method) a login form submits
MethodInputs ==
    {<<sha256_b64(v1), "S256">>, <<v1, "plain">>, <<NonAscii, "plain">>, <<v1, "S512">>}
\* code_verifier values presented to the exchange
MethodVerifiers == Verifiers \cup {NonAscii}
\* OAuthConfig.get_authorization_server_metadata
code_challenge_methods_supported == {"S256"}

NextMethod ==
    \/ Tick
    \/ \E ch \in MethodInputs : GenerateAuthorizationCode("u1", ch, <<None, None>>)
    \/ \E c \in CodeIds, v \in MethodVerifiers : ExchangeCodeForToken(c, v, None, None)

SpecMethod == Init /\ [][NextMethod]_vars

C35_PlainVerifierEqualAndAscii ==
    /\ "plain" \notin code_challenge_methods_supported
    /\ \A c \in DOMAIN codes :
          (codes[c].code_challenge_method = "plain" /\ codes[c].expires_at >= now) =>
              \A v \in MethodVerifiers :
                  ExchangeNow(c, v, <<None, None>>).ok
                      <=> (v = codes[c].code_challenge /\ v # NonAscii)
C35_Witness ==
    /\ last.op = "exchange_code_for_token"
    /\ last.ok
    /\ \E x \in DOMAIN tokens : tokens[x].created_at = now
    /\ \E c \in DOMAIN codes :
          /\ codes[c].code_challenge_method = "plain"
          /\ codes[c].code_challenge = NonAscii
          /\ codes[c].expires_at >= now
          /\ ~ExchangeNow(c, NonAscii, <<None, None>>).ok
\* C35 as stated: an unexpired "plain" code is exchanged exactly by the
\* verifier equal to the stored code_challenge.
C35_PlainVerifierEqual ==
    \A c \in DOMAIN codes :
        (codes[c].code_challenge_method = "plain" /\ codes[c].expires_at >= now) =>
            \A v \in MethodVerifiers :
                ExchangeNow(c, v, <<None, None>>).ok <=> v = codes[c].code_challenge

\* ------------------------------------------------- the JSON file of a store
\* What the file of JSONTokenStore (and, with the same code, of AuthCodeStore)
\* holds: no file, no text, text that is not JSON, JSON that is not an object,
\* bytes that are not text, or a document mapping keys to records.
JsonFile(kind, doc) == [kind |-> kind, doc |-> doc]
JsonRecord(tok) ==
    TokenData(tok, "u1", simple_encrypt(ApiKey("u1")), simple_encrypt(ApiSecret("u1")),
              Some(2), 0)
JsonKeys == {generate_secure_token(1), generate_secure_token(2)}
JsonFiles ==
    {JsonFile(k, EmptyMap) : k \in {"missing", "empty", "malformed", "array", "undecodable"}}
    \cup {JsonFile("object", EmptyMap),
          JsonFile("object", Put(EmptyMap, generate_secure_token(1),
                                 JsonRecord(generate_secure_token(1))))}
JsonOps == {"get_token", "delete_token", "cleanup_expired_tokens", "store_token"}
JsonTimes == {0, 3}

\* mutant: only a missing file counts as empty
load_tokens_strict(f) ==
    IF f.kind = "missing" THEN [raised |-> FALSE, isdict |-> TRUE, doc |-> EmptyMap]
    ELSE IF f.kind = "object" THEN [raised |-> FALSE, isdict |-> TRUE, doc |-> f.doc]
    ELSE [raised |-> TRUE, isdict |-> FALSE, doc |-> EmptyMap]

\* _load_tokens: read_text, json.loads; FileNotFoundError and JSONDecodeError
\* give {}, UnicodeDecodeError is raised, JSON of another type is returned
load_tokens(f) ==
    IF f.kind \in {"missing", "empty", "malformed"}
    THEN [raised |-> FALSE, isdict |-> TRUE, doc |-> EmptyMap]
    ELSE IF f.kind = "object" THEN [raised |-> FALSE, isdict |-> TRUE, doc |-> f.doc]
    ELSE IF f.kind = "array" THEN [raised |-> FALSE, isdict |-> FALSE, doc |-> EmptyMap]
    ELSE [raised |-> TRUE, isdict |-> FALSE, doc |-> EmptyMap]

JsonRaised(f) == [raised |-> TRUE, val |-> Nothing, file |-> f]
JsonReturn(f, val) == [raised |-> FALSE, val |-> Some(val), file |-> f]

\* one method of JSONTokenStore on the file f at time t: whether it raised,
\* what it returned, and the file afterwards (_save_tokens writes a document)
json_file_op(f, op, key, t) ==
    LET l == load_tokens(f)
    IN  IF l.raised THEN JsonRaised(f)
        ELSE IF op = "get_token"
        THEN IF ~l.isdict THEN JsonRaised(f)
             ELSE JsonReturn(f, IF key \in DOMAIN l.doc THEN Some(l.doc[key]) ELSE Nothing)
        ELSE IF op = "delete_token"
        THEN IF key \in DOMAIN l.doc
             THEN JsonReturn(JsonFile("object", Remove(l.doc, {key})), TRUE)
             ELSE JsonReturn(f, FALSE)
        ELSE IF op = "cleanup_expired_tokens"
        THEN IF ~l.isdict THEN JsonRaised(f)
             ELSE LET r == cleanup_expired_tokens(l.doc, t)
                  IN  JsonReturn(IF r.count > 0 THEN JsonFile("object", r.store) ELSE f,
                                 r.count)
        ELSE IF ~l.isdict THEN JsonRaised(f)
             ELSE JsonReturn(JsonFile("object", store_token(l.doc, JsonRecord(key))), Nothing)

JsonCall(f, op, key, t) ==
    [fn |-> "JSONTokenStore", args |-> [file |-> f, op |-> op, key |-> key, t |-> t],
     ret |-> <<>>]

InitJson ==
    /\ InitRest
    /\ call \in {JsonCall(f, op, key, t) :
                    f \in JsonFiles, op \in JsonOps, key \in JsonKeys, t \in JsonTimes}

\* the method is called on the file
JsonFileOp ==
    /\ call.fn = "JSONTokenStore"
    /\ call.ret = <<>>
    /\ call' = [call EXCEPT !.ret =
                   <<json_file_op(call.args.file, call.args.op, call.args.key, call.args.t)>>]
    /\ UNCHANGED <<now, backend, codes, tokens, nextCode, nextToken, last,
                   exchanged, revoked, xreq>>
    /\ UNCHANGED reqvars
    /\ UNCHANGED auxvars
    /\ UNCHANGED confvars

\* store_token is called on the file the method left
JsonFileStore ==
    /\ call.fn = "JSONTokenStore"
    /\ Len(call.ret) = 1
    /\ call' = [call EXCEPT !.ret =
                   Append(call.ret, json_file_op(call.ret[1].file, "store_token",
                                                 call.args.key, call.args.t))]
    /\ UNCHANGED <<now, backend, codes, tokens, nextCode, nextToken, last,
                   exchanged, revoked, xreq>>
    /\ UNCHANGED reqvars
    /\ UNCHANGED auxvars
    /\ UNCHANGED confvars

NextJson == JsonFileOp \/ JsonFileStore

SpecJson == InitJson /\ [][NextJson]_vars

\* C36: on a file that is missing, empty or not JSON, get reports absent,
\* delete returns false and cleanup returns 0, none raising and none writing
\* the file; a store that follows succeeds and leaves a document that holds
\* the stored record.
C36_BrokenFileIsEmptyStore ==
    (/\ call.fn = "JSONTokenStore"
     /\ call.args.file.kind \in {"missing", "empty", "malformed"}
     /\ call.args.op # "store_token"
     /\ call.ret # <<>>)
    => /\ ~call.ret[1].raised
       /\ call.ret[1].file = call.args.file
       /\ call.args.op = "get_token" => call.ret[1].val = Some(Nothing)
       /\ call.args.op = "delete_token" => call.ret[1].val = Some(FALSE)
       /\ call.args.op = "cleanup_expired_tokens" => call.ret[1].val = Some(0)
       /\ Len(call.ret) = 2 =>
             /\ ~call.ret[2].raised
             /\ call.ret[2].file.kind = "object"
             /\ DOMAIN call.ret[2].file.doc = {call.args.key}
             /\ call.ret[2].file.doc[call.args.key] = JsonRecord(call.args.key)
             /\ json_file_op(call.ret[2].file, "get_token", call.args.key, call.args.t).val
                    = Some(Some(JsonRecord(call.args.key)))
C36_Witness ==
    /\ call.fn = "JSONTokenStore"
    /\ call.args.file.kind = "malformed"
    /\ call.args.op = "cleanup_expired_tokens"
    /\ Len(call.ret) = 2
    /\ call.ret[1].val = Some(0)
    /\ call.ret[2].file.kind = "object"
    /\ json_file_op(JsonFile("undecodable", EmptyMap), "get_token", call.args.key, 0).raised

\* ------------------------------------------- records with stored plaintext
\* credentials as a record written before encryption was introduced holds
\* them, or as a damaged record does: plaintext, or base64 text whose bytes
\* do not decode as UTF-8 after the XOR
LegacyCredentials == {ApiKey("u1"), [raw |-> <<3>>]}

\* store_token of a record whose credentials were not produced by
\* simple_encrypt
StoreLegacyToken(tok, cred) ==
    /\ tokens' = store_token(tokens,
                     TokenData(tok, "u1", cred, cred, Some(now + TokenTTL), now))
    /\ last' = Result("store_token", tok, TRUE, "", Nothing)
    /\ UNCHANGED <<now, backend, codes, nextCode, nextToken, exchanged, revoked>>
    /\ UNCHANGED reqvars
    /\ UNCHANGED auxvars
    /\ UNCHANGED stepvars

NextDecrypt ==
    \/ Tick
    \/ \E tok \in CleanupTokens : StoreToken(tok, TRUE)
    \/ \E tok \in CleanupTokens, cred \in LegacyCredentials : StoreLegacyToken(tok, cred)
    \/ \E tok \in CleanupTokens : ValidateBearerToken(tok)

SpecDecrypt == Init /\ [][NextDecrypt]_vars

\* C37: simple_decrypt gives back unchanged a stored value it cannot decrypt,
\* so validate_bearer_token of a stored, unexpired token returns a user
\* context whatever its credentials are: the decrypted credentials when they
\* were stored encrypted, the stored ones otherwise.
C37_DecryptFallsBack ==
    /\ \A cred \in LegacyCredentials : simple_decrypt(cred) = cred
    /\ \A tok \in DOMAIN tokens :
          (IsSome(tokens[tok].expires_at) /\ The(tokens[tok].expires_at) >= now) =>
              LET r == validate_bearer_token(backend, tokens, tok, now)
                  d == tokens[tok]
              IN  /\ IsSome(r.val)
                  /\ r.store = tokens
                  /\ The(r.val).user_email = d.user_email
                  /\ d.extend_api_key \in LegacyCredentials =>
                        /\ The(r.val).extend_api_key = d.extend_api_key
                        /\ The(r.val).extend_api_secret = d.extend_api_secret
                  /\ d.extend_api_key \notin LegacyCredentials =>
                        /\ The(r.val).extend_api_key = ApiKey(d.user_email)
                        /\ The(r.val).extend_api_secret = ApiSecret(d.user_email)
C37_Witness ==
    /\ last.op = "validate_bearer_token"
    /\ last.ok
    /\ last.key \in DOMAIN tokens
    /\ tokens[last.key].extend_api_key = [raw |-> <<3>>]
    /\ \E x \in DOMAIN tokens : tokens[x].extend_api_key = ApiKey("u1")

\* ------------------------------------------------ expense-data confirmation
\* propose_transaction_expense_data and confirm_transaction_expense_data
\* (shared/functions.py), with the module-level dict pending_selections.  A
\* call runs without interruption between two awaits; the awaits are the
\* requests to the downstream API.
MaxProposals == 2
\* timedelta(minutes=10), in clock units
SelectionTTL == 1
\* str(uuid.uuid4()): the n-th token drawn
uuid4(n) == <<"uuid", n>>
ConfirmationTokens == {uuid4(n) : n \in 1..MaxProposals}
ExpenseData == {"d1", "d2"}

\* propose_transaction_expense_data, from the return of get_transaction on
ProposeTransactionExpenseData(transaction_id, data) ==
    /\ Cardinality(DOMAIN applied) < MaxProposals
    /\ LET confirmation_token == uuid4(Cardinality(DOMAIN applied) + 1)
       IN  /\ pending_selections' = Put(pending_selections, confirmation_token,
                   [transaction_id |-> transaction_id, data |-> data,
                    expires_at |-> now + SelectionTTL])
           /\ applied' = Put(applied, confirmation_token, 0)
    /\ UNCHANGED <<now, backend, codes, tokens, nextCode, nextToken, last,
                   exchanged, revoked, call, xreq, conf>>
    /\ UNCHANGED reqvars
    /\ UNCHANGED auxvars

ConfRaise(q, msg) == [q EXCEPT !.pc = "done", !.ok = FALSE, !.err = msg]

\* confirm_transaction_expense_data up to its await: the two checks
ConfirmCall(i, confirmation_token) ==
    /\ conf[i].pc = "idle"
    /\ LET q == [IdleConf EXCEPT !.confirmation_token = confirmation_token]
       IN  IF confirmation_token \notin DOMAIN pending_selections
           THEN /\ conf' = [conf EXCEPT ![i] = ConfRaise(q, "Invalid confirmation token")]
                /\ UNCHANGED pending_selections
           ELSE IF now > pending_selections[confirmation_token].expires_at
           THEN /\ conf' = [conf EXCEPT ![i] = ConfRaise(q, "Confirmation token has expired")]
                /\ pending_selections' = Remove(pending_selections, {confirmation_token})
           ELSE /\ conf' = [conf EXCEPT ![i] = [q EXCEPT !.pc = "update"]]
                /\ UNCHANGED pending_selections
    /\ UNCHANGED <<now, backend, codes, tokens, nextCode, nextToken, last,
                   exchanged, revoked, call, xreq, applied>>
    /\ UNCHANGED reqvars
    /\ UNCHANGED auxvars

\* the downstream API applies update_transaction_expense_data
ConfirmUpdateApplied(i) ==
    /\ conf[i].pc = "update"
    /\ applied' = [applied EXCEPT ![conf[i].confirmation_token] = @ + 1]
    /\ conf' = [conf EXCEPT ![i].pc = "resume"]
    /\ UNCHANGED <<now, backend, codes, tokens, nextCode, nextToken, last,
                   exchanged, revoked, call, xreq, pending_selections>>
    /\ UNCHANGED reqvars
    /\ UNCHANGED auxvars

\* the downstream API refuses the update and the call raises
ConfirmUpdateFails(i) ==
    /\ conf[i].pc = "update"
    /\ conf' = [conf EXCEPT ![i] = ConfRaise(conf[i], "update failed")]
    /\ UNCHANGED <<now, backend, codes, tokens, nextCode, nextToken, last,
                   exchanged, revoked, call, xreq, pending_selections, applied>>
    /\ UNCHANGED reqvars
    /\ UNCHANGED auxvars

\* the await returns: del pending_selections[confirmation_token] (KeyError
\* when the entry is gone) and return of the response
ConfirmResume(i) ==
    /\ conf[i].pc = "resume"
    /\ IF conf[i].confirmation_token \in DOMAIN pending_selections
       THEN /\ pending_selections' = Remove(pending_selections, {conf[i].confirmation_token})
            /\ conf' = [conf EXCEPT ![i].pc = "done", ![i].ok = TRUE]
       ELSE /\ conf' = [conf EXCEPT ![i] = ConfRaise(conf[i], "KeyError")]
            /\ UNCHANGED pending_selections
    /\ UNCHANGED <<now, backend, codes, tokens, nextCode, nextToken, last,
                   exchanged, revoked, call, xreq, applied>>
    /\ UNCHANGED reqvars
    /\ UNCHANGED auxvars

\* the caller takes the result; the next call may be made
ConfirmReturns(i) ==
    /\ conf[i].pc = "done"
    /\ conf' = [conf EXCEPT ![i] = IdleConf]
    /\ UNCHANGED <<now, backend, codes, tokens, nextCode, nextToken, last,
                   exchanged, revoked, call, xreq, pending_selections, applied>>
    /\ UNCHANGED reqvars
    /\ UNCHANGED auxvars

cleanup_pending_selections(pending, t) ==
    Remove(pending, {k \in DOMAIN pending : t > pending[k].expires_at})

CleanupPendingSelections ==
    /\ pending_selections' = cleanup_pending_selections(pending_selections, now)
    /\ UNCHANGED <<now, backend, codes, tokens, nextCode, nextToken, last,
                   exchanged, revoked, call, xreq, conf, applied>>
    /\ UNCHANGED reqvars
    /\ UNCHANGED auxvars

NextConfirm ==
    \/ Tick
    \/ \E data \in ExpenseData : ProposeTransactionExpenseData("tx1", data)
    \/ \E i \in ConfReqs, tok \in ConfirmationTokens : ConfirmCall(i, tok)
    \/ \E i \in ConfReqs : ConfirmUpdateApplied(i)
    \/ \E i \in ConfReqs : ConfirmUpdateFails(i)
    \/ \E i \in ConfReqs : ConfirmResume(i)
    \/ \E i \in ConfReqs : ConfirmReturns(i)
    \/ CleanupPendingSelections

SpecConfirm == Init /\ [][NextConfirm]_vars

\* C38: for every confirmation token the proposed update is applied to the
\* downstream API at most once, and a confirm call that fails after the
\* token was confirmed or while it is being confirmed fails with "Invalid
\* confirmation token" or with the expiry message.
C38_AppliedAtMostOnce ==
    /\ \A tok \in DOMAIN applied : applied[tok] <= 1
    /\ \A i \in ConfReqs : conf[i].err # "KeyError"

====
